---- MODULE Spec2Model ----
(***************************************************************************)
(* A model of the retrieval pipeline of the resume tailoring application:   *)
(*                                                                         *)
(*  - the FAISS-backed VectorStore of app/ingestion/vector_store.py: its    *)
(*    three parallel in-memory collections, the two files it persists, and  *)
(*    its operations add_chunks, clear, search, count and the constructor   *)
(*    (which loads the files): specifications Spec, SpecMeta, SpecRank;     *)
(*    SpecBatch, SpecAlign, SpecFetch;                                      *)
(*  - the chunker of app/ingestion/chunker.py: specification SpecChunk;     *)
(*  - the sanitizer of app/ingestion/sanitizer.py: SpecSanitize;            *)
(*  - the loaders of app/ingestion/loaders.py: SpecLoad;                    *)
(*  - the keyword extraction of app/retrieval/rag.py: SpecKeywords;         *)
(*  - the output files of app/generation/outputs.py: SpecOutputs;           *)
(*  - the "Process & Index" button of app/main.py: SpecIndex.               *)
(*                                                                         *)
(* Vectors are sequences of integers.  A normalized vector keeps its       *)
(* coordinates in fifths (the embedding service below only answers with    *)
(* vectors whose normalized coordinates are whole fifths), so an inner     *)
(* product of two normalized vectors is a number of twenty-fifths.         *)
(* Texts handed to the chunker are sequences of characters, texts handed   *)
(* to the sanitizer sequences of lines.                                    *)
(***************************************************************************)
EXTENDS Integers, Sequences, FiniteSets, TLC

\* ---------------------------------------------------------------- bounds
\* most entries a collection (index, text list, metadata list) may hold
MaxEntries == 2
\* longest chunk list and metadata list handed to one add_chunks call
MaxCall == 3
\* largest top_k handed to search
MaxTopK == 2
\* most irregular events in one behaviour: file writes or unlinks that do not
\* complete, and add_chunks calls with lists of different lengths
MaxIrregular == 1

\* ---------------------------------------------------------------- inputs
Texts == {"a", "b"}
Queries == {"a", "q"}
DocTypes == {"resume", "book"}
\* widths of the embeddings of the embedding models the service may serve
Widths == {1, 2}
BatchSizes == {1, 2}

\* A Python value: its kind and its printed form.
PyNone == [kind |-> "none", val |-> ""]
PyStr(s) == [kind |-> "str", val |-> s]

\* A metadata dict is the set of its <<key, value>> items.
MetaOf(doc_type) == {<<"doc_type", PyStr(doc_type)>>}

\* the chunks a call may bring, each with its metadata: two texts, the two
\* doc types, and a chunk whose metadata has no doc_type
Docs ==
  { [text |-> "a", meta |-> MetaOf("resume")],
    [text |-> "b", meta |-> MetaOf("book")],
    [text |-> "a", meta |-> {}] }

\* the lists of a call that brings the chunks ds: skew 0 the metadata of each
\* chunk, skew -1 the last metadata missing, skew 1 one metadata too many
ChunksOf(ds) == [i \in DOMAIN ds |-> ds[i].text]
MetasOf(ds, skew) ==
  LET ms == [i \in DOMAIN ds |-> ds[i].meta]
  IN  CASE skew = 0 -> ms
        [] skew = 1 -> Append(ms, {})
        [] OTHER -> SubSeq(ms, 1, Len(ms) - 1)

\* dict.get(key): the value, None when the key is missing
DictGet(m, k) ==
  IF \E p \in m : p[1] = k THEN (CHOOSE p \in m : p[1] = k)[2] ELSE PyNone

\* ---------------------------------------------------------------- state
VARIABLES
  open,        \* a VectorStore object exists (its constructor returned)
  index,       \* self._index: None, or a flat inner-product index
  chunks,      \* self._chunks
  metadatas,   \* self._metadatas
  indexFile,   \* <collection>.faiss on disk
  metaFile,    \* <collection>_meta.json on disk
  last,        \* the latest call: operation, arguments in brief, outcome, result
  tally,       \* history: sum of the values add_chunks returned since the store was empty
  cleared,     \* history: clear() completed and no add_chunks has returned since
  irregular    \* history: number of irregular events so far

vars == <<open, index, chunks, metadatas, indexFile, metaFile, last, tally,
          cleared, irregular>>

\* self._index = None
NoIndex == [some |-> FALSE, d |-> 0, vecs |-> <<>>]
\* faiss.IndexFlatIP(dim)
IndexFlatIP(dim) == [some |-> TRUE, d |-> dim, vecs |-> <<>>]

AbsentIndexFile == [state |-> "absent", d |-> 0, vecs |-> <<>>]
CorruptIndexFile == [state |-> "corrupt", d |-> 0, vecs |-> <<>>]
AbsentMetaFile == [state |-> "absent", chunks |-> <<>>, metadatas |-> <<>>]
CorruptMetaFile == [state |-> "corrupt", chunks |-> <<>>, metadatas |-> <<>>]

\* VectorStore.count
Count == IF ~index.some THEN 0 ELSE Len(index.vecs)

\* ---------------------------------------------------------------- vectors
RECURSIVE SumSq(_)
SumSq(v) == IF v = <<>> THEN 0 ELSE Head(v) * Head(v) + SumSq(Tail(v))

RECURSIVE Dot(_, _)
Dot(u, v) == IF u = <<>> THEN 0 ELSE Head(u) * Head(v) + Dot(Tail(u), Tail(v))

\* the Euclidean norm (whole for every vector the service answers with)
NormOf(v) == CHOOSE r \in 0..SumSq(v) : r * r <= SumSq(v) /\ SumSq(v) < (r + 1) * (r + 1)

\* VectorStore._normalize, one row; the result is in fifths
Normalize(v) ==
  LET norms == NormOf(v)
      safe == IF norms = 0 THEN 1 ELSE norms
  IN  [i \in DOMAIN v |-> (v[i] * 5) \div safe]

\* the embedding the service computes for a text under a model of width w
EmbeddingOf(w, t) ==
  IF w = 1
    THEN CASE t = "a" -> <<2>>
           [] t = "b" -> <<-3>>
           [] OTHER   -> <<0>>
    ELSE CASE t = "a" -> <<6, 8>>
           [] t = "b" -> <<4, 3>>
           [] OTHER   -> <<5, 0>>

\* VectorStore._embed: one request for a batch of texts
Embed(w, texts) == [i \in DOMAIN texts |-> EmbeddingOf(w, texts[i])]


\* ---------------------------------------------------------------- add_chunks
\* bool(v) of a Python value, read off its printed form
Truthy(v) ==
  v.kind # "none" /\ v.val \notin {"", "0", "0.0", "False", "[]", "{}", "()"}

\* mutant: lists and dicts are stored as they are
CleanValueKeepsLists(v) ==
  IF v.kind \in {"str", "int", "float", "bool", "list", "dict"} THEN v
  ELSE PyStr(IF Truthy(v) THEN v.val ELSE "")

\* the metadata cleaning of add_chunks, one value: scalars are kept, lists and
\* dicts become their printed form, anything else its printed form when it is
\* truthy and "" when it is not (None, an empty tuple)
CleanValue(v) ==
  IF v.kind # "none" /\ v.kind \in {"str", "int", "float", "bool"} THEN v
  ELSE IF v.kind \in {"list", "dict"} THEN PyStr(v.val)
  ELSE PyStr(IF Truthy(v) THEN v.val ELSE "")

CleanMetadata(m) == {<<p[1], CleanValue(p[2])>> : p \in m}

CleanMetadatas(ms) == [i \in DOMAIN ms |-> CleanMetadata(ms[i])]

Min(a, b) == IF a <= b THEN a ELSE b

\* number of batches range(0, n, bs) runs through
NumBatches(n, bs) == (n + bs - 1) \div bs

\* mutant: a request the service fails on is sent once more
RECURSIVE EmbedLoopRetry(_, _, _, _, _, _, _)
EmbedLoopRetry(cs, bs, w, failAt, i, acc, sent) ==
  IF i >= Len(cs)
    THEN [ok |-> TRUE, embeddings |-> acc, requests |-> Len(sent), sent |-> sent]
    ELSE LET batch == SubSeq(cs, i + 1, Min(i + bs, Len(cs)))
         IN  IF failAt = Len(sent) + 1
               THEN [ok |-> FALSE, embeddings |-> <<>>, requests |-> Len(sent) + 2,
                     sent |-> sent \o <<batch, batch>>]
               ELSE EmbedLoopRetry(cs, bs, w, failAt, i + bs, acc \o Embed(w, batch),
                                   Append(sent, batch))

\* The embedding loop of add_chunks: batches of bs texts from offset i on, one
\* request each, in order; sent is the list of the batches requested so far.
\* failAt is the request the service fails on (0: none).  A failure
\* propagates: the embeddings gathered so far are dropped.
RECURSIVE EmbedLoop(_, _, _, _, _, _, _)
EmbedLoop(cs, bs, w, failAt, i, acc, sent) ==
  IF i >= Len(cs)
    THEN [ok |-> TRUE, embeddings |-> acc, requests |-> Len(sent), sent |-> sent]
    ELSE LET batch == SubSeq(cs, i + 1, Min(i + bs, Len(cs)))
         IN  IF failAt = Len(sent) + 1
               THEN [ok |-> FALSE, embeddings |-> <<>>, requests |-> Len(sent) + 1,
                     sent |-> Append(sent, batch)]
               ELSE EmbedLoop(cs, bs, w, failAt, i + bs, acc \o Embed(w, batch),
                              Append(sent, batch))

\* mutant: an index that takes vectors of any width
IndexAddAnyWidth(idx, vectors, dim) ==
  [ok |-> TRUE, index |-> [idx EXCEPT !.vecs = @ \o vectors]]

\* mutant: only the first vector of the call reaches the index
IndexAddFirstOnly(idx, vectors, dim) ==
  IF dim # idx.d
    THEN [ok |-> FALSE, index |-> idx]
    ELSE [ok |-> TRUE, index |-> [idx EXCEPT !.vecs = Append(@, vectors[1])]]

\* index.add(vectors): faiss refuses vectors whose width is not the index's
IndexAdd(idx, vectors, dim) ==
  IF dim # idx.d
    THEN [ok |-> FALSE, index |-> idx]
    ELSE [ok |-> TRUE, index |-> [idx EXCEPT !.vecs = @ \o vectors]]

\* what _save writes
IndexFileOf(idx) == [state |-> "ok", d |-> idx.d, vecs |-> idx.vecs]
MetaFileOf(cks, mds) == [state |-> "ok", chunks |-> cks, metadatas |-> mds]

SaveOutcomes == {"ok", "index_partial", "between", "meta_partial"}

\* VectorStore._save: the index file, then the record file.  sv says how far
\* the writes get: "ok" both; "index_partial" the index write stops midway;
\* "between" the index is written and the record file is not touched;
\* "meta_partial" the record file is opened for writing and left incomplete.
Save(idx, cks, mds, sv) ==
  LET written == IF idx.some THEN IndexFileOf(idx) ELSE indexFile
      partial == IF idx.some THEN CorruptIndexFile ELSE indexFile
  IN  CASE sv = "ok" ->
             [ok |-> TRUE, indexFile |-> written, metaFile |-> MetaFileOf(cks, mds)]
        [] sv = "index_partial" ->
             [ok |-> FALSE, indexFile |-> partial, metaFile |-> metaFile]
        [] sv = "between" ->
             [ok |-> FALSE, indexFile |-> written, metaFile |-> metaFile]
        [] OTHER ->
             [ok |-> FALSE, indexFile |-> written, metaFile |-> CorruptMetaFile]

Unchanged(outcome, reqs) ==
  [outcome |-> outcome, ret |-> 0, requests |-> reqs,
   index |-> index, chunks |-> chunks, metadatas |-> metadatas,
   indexFile |-> indexFile, metaFile |-> metaFile]

\* mutant: the new metadata records are put in front of the stored ones
CommitMetasFirst(cs, clean_metadatas, embeddings, reqs, sv) ==
  LET vectors == [i \in DOMAIN embeddings |-> Normalize(embeddings[i])]
      dim == Len(vectors[1])
      idx0 == IF ~index.some THEN IndexFlatIP(dim) ELSE index
      added == IndexAdd(idx0, vectors, dim)
  IN
  IF ~added.ok THEN Unchanged("dim_error", reqs)
  ELSE
  LET cks == chunks \o cs
      mds == clean_metadatas \o metadatas
      saved == Save(added.index, cks, mds, sv)
  IN  [outcome |-> IF saved.ok THEN "ok" ELSE "save_error",
       ret |-> IF saved.ok THEN Len(cs) ELSE 0,
       requests |-> reqs,
       index |-> added.index, chunks |-> cks, metadatas |-> mds,
       indexFile |-> saved.indexFile, metaFile |-> saved.metaFile]

\* add_chunks once every batch is embedded: normalize, create the index on
\* first use, add the vectors, extend the two lists, save
Commit(cs, clean_metadatas, embeddings, reqs, sv) ==
  LET vectors == [i \in DOMAIN embeddings |-> Normalize(embeddings[i])]
      dim == Len(vectors[1])
      idx0 == IF ~index.some THEN IndexFlatIP(dim) ELSE index
      added == IndexAdd(idx0, vectors, dim)
  IN
  IF ~added.ok THEN Unchanged("dim_error", reqs)
  ELSE
  LET cks == chunks \o cs
      mds == metadatas \o clean_metadatas
      saved == Save(added.index, cks, mds, sv)
  IN  [outcome |-> IF saved.ok THEN "ok" ELSE "save_error",
       ret |-> IF saved.ok THEN Len(cs) ELSE 0,
       requests |-> reqs,
       index |-> added.index, chunks |-> cks, metadatas |-> mds,
       indexFile |-> saved.indexFile, metaFile |-> saved.metaFile]

\* mutant: each batch is added and saved as soon as it is embedded, so the
\* batches before a failing request stay in the store
add_chunks_per_batch(cs, ms, bs, w, failAt, sv) ==
  IF cs = <<>> THEN Unchanged("ok", 0)
  ELSE
  LET clean_metadatas == CleanMetadatas(ms)
      emb == EmbedLoop(cs, bs, w, failAt, 0, <<>>, <<>>)
      kept == Min((emb.requests - 1) * bs, Len(cs))
  IN
  IF emb.ok THEN Commit(cs, clean_metadatas, emb.embeddings, emb.requests, sv)
  ELSE IF kept = 0 THEN Unchanged("embed_error", emb.requests)
  ELSE [Commit(SubSeq(cs, 1, kept), SubSeq(clean_metadatas, 1, Min(kept, Len(ms))),
               Embed(w, SubSeq(cs, 1, kept)), emb.requests, "ok")
          EXCEPT !.outcome = "embed_error", !.ret = 0]

\* mutant: an empty call goes on to _save, which writes the files anew
add_chunks_empty_saves(cs, ms, bs, w, failAt, sv) ==
  IF cs = <<>>
    THEN LET saved == Save(index, chunks, metadatas, "ok")
         IN  [Unchanged("ok", 0) EXCEPT !.indexFile = saved.indexFile,
                                        !.metaFile = saved.metaFile]
  ELSE
  LET clean_metadatas == CleanMetadatas(ms)
      emb == EmbedLoop(cs, bs, w, failAt, 0, <<>>, <<>>)
  IN
  IF ~emb.ok THEN Unchanged("embed_error", emb.requests)
  ELSE Commit(cs, clean_metadatas, emb.embeddings, emb.requests, sv)

\* VectorStore.add_chunks(cs, ms, batch_size = bs) on the current store, with a
\* service that answers with vectors of width w and fails on request failAt,
\* and file writes that get as far as sv.  The result carries, as history, the
\* batches requested of the service (sent).
add_chunks(cs, ms, bs, w, failAt, sv) ==
  IF cs = <<>> THEN Unchanged("ok", 0) @@ [sent |-> <<>>]
  ELSE
  LET clean_metadatas == CleanMetadatas(ms)
      emb == EmbedLoop(cs, bs, w, failAt, 0, <<>>, <<>>)
  IN
  IF ~emb.ok THEN Unchanged("embed_error", emb.requests) @@ [sent |-> emb.sent]
  ELSE Commit(cs, clean_metadatas, emb.embeddings, emb.requests, sv) @@ [sent |-> emb.sent]

\* the record of a call that is no search
Call(op, outcome, n, mismatch, batches, reqs, ret) ==
  [op |-> op, outcome |-> outcome, nchunks |-> n, mismatch |-> mismatch,
   batches |-> batches, requests |-> reqs, ret |-> ret,
   topk |-> 0, filter |-> {}, out |-> <<>>]

\* The calls tried: n chunks of Docs (a call that cannot get past the
\* embedding service, or past the width check of the index, is tried with one
\* content per length), the metadata list (of a call that brings chunks)
\* skewed or not.
Contents(n, rejected) ==
  IF rejected THEN {[i \in 1..n |-> [text |-> "a", meta |-> MetaOf("resume")]]}
  ELSE [1..n -> Docs]

AddChunks ==
  /\ open
  /\ \E n \in 0..MaxCall, skew \in {-1, 0, 1}, bs \in BatchSizes, w \in Widths :
       /\ skew # 0 => irregular < MaxIrregular /\ n > 0
       /\ \E failAt \in 0..NumBatches(n, bs) :
          \E sv \in (IF failAt = 0 /\ n > 0 /\ skew = 0 /\ irregular < MaxIrregular
                       THEN SaveOutcomes ELSE {"ok"}) :
          \E rejected \in {failAt > 0 \/ (index.some /\ w # index.d)} :
            /\ rejected \/ ( /\ Len(index.vecs) + n <= MaxEntries
                             /\ Len(chunks) + n <= MaxEntries
                             /\ Len(metadatas) + n + skew <= MaxEntries )
            /\ \E ds \in Contents(n, rejected) :
               \E r \in {add_chunks(ChunksOf(ds), MetasOf(ds, skew), bs, w, failAt, sv)} :
                  /\ index' = r.index
                  /\ chunks' = r.chunks
                  /\ metadatas' = r.metadatas
                  /\ indexFile' = r.indexFile
                  /\ metaFile' = r.metaFile
                  /\ last' = Call("add_chunks", r.outcome, n, skew # 0,
                                  NumBatches(n, bs), r.requests, r.ret)
                  /\ tally' = IF r.outcome = "ok"
                                THEN [tally EXCEPT !.sum = @ + r.ret]
                                ELSE IF r.outcome = "save_error"
                                       THEN [on |-> FALSE, sum |-> 0]
                                       ELSE tally
                  /\ cleared' = (cleared /\ ~(r.outcome = "ok" /\ n > 0))
                  /\ irregular' = IF skew # 0 \/ sv # "ok" THEN irregular + 1 ELSE irregular
                  /\ UNCHANGED open

\* ---------------------------------------------------------------- clear
\* mutant: clear forgets the metadata list
clear_keeps_metadatas(done) ==
  [index |-> NoIndex, chunks |-> <<>>, metadatas |-> metadatas,
   indexFile |-> AbsentIndexFile,
   metaFile |-> IF done THEN AbsentMetaFile ELSE metaFile]

\* VectorStore.clear; done says whether the second unlink is reached
clear(done) ==
  [index |-> NoIndex, chunks |-> <<>>, metadatas |-> <<>>,
   indexFile |-> AbsentIndexFile,
   metaFile |-> IF done THEN AbsentMetaFile ELSE metaFile]

Clear ==
  /\ open
  /\ \E done \in BOOLEAN :
       /\ ~done => irregular < MaxIrregular
       /\ LET r == clear(done)
          IN  /\ index' = r.index
              /\ chunks' = r.chunks
              /\ metadatas' = r.metadatas
              /\ indexFile' = r.indexFile
              /\ metaFile' = r.metaFile
              /\ last' = Call("clear", IF done THEN "ok" ELSE "unlink_error", 0, FALSE, 0, 0, 0)
              /\ tally' = [on |-> TRUE, sum |-> 0]
              /\ cleared' = (done \/ cleared)
              /\ irregular' = IF done THEN irregular ELSE irregular + 1
              /\ UNCHANGED open

\* ---------------------------------------------------------------- constructor
\* mutant: each file is loaded when it exists, whatever the other
LoadEach(ifile, mfile) ==
  IF ifile.state = "corrupt" \/ mfile.state = "corrupt"
    THEN [ok |-> FALSE, index |-> NoIndex, chunks |-> <<>>, metadatas |-> <<>>]
    ELSE [ok |-> TRUE,
          index |-> IF ifile.state = "ok"
                      THEN [some |-> TRUE, d |-> ifile.d, vecs |-> ifile.vecs]
                      ELSE NoIndex,
          chunks |-> mfile.chunks, metadatas |-> mfile.metadatas]

\* VectorStore._load on the files given: both must exist, and both must parse
Load(ifile, mfile) ==
  IF ifile.state # "absent" /\ mfile.state # "absent"
    THEN IF ifile.state = "corrupt" \/ mfile.state = "corrupt"
           THEN [ok |-> FALSE, index |-> NoIndex, chunks |-> <<>>, metadatas |-> <<>>]
           ELSE [ok |-> TRUE,
                 index |-> [some |-> TRUE, d |-> ifile.d, vecs |-> ifile.vecs],
                 chunks |-> mfile.chunks, metadatas |-> mfile.metadatas]
    ELSE [ok |-> TRUE, index |-> NoIndex, chunks |-> <<>>, metadatas |-> <<>>]

\* VectorStore(persist_dir, collection_name): a new object on the same files
Open ==
  LET r == Load(indexFile, metaFile)
  IN  /\ open' = r.ok
      /\ index' = r.index
      /\ chunks' = r.chunks
      /\ metadatas' = r.metadatas
      /\ last' = Call("open", IF r.ok THEN "ok" ELSE "load_error", 0, FALSE, 0, 0, 0)
      /\ tally' = [on |-> r.ok /\ ~r.index.some /\ r.chunks = <<>>, sum |-> 0]
      /\ cleared' = FALSE
      /\ UNCHANGED <<indexFile, metaFile, irregular>>

\* ---------------------------------------------------------------- search
\* the inner product the index reports for entry pos (in twenty-fifths)
Score(idx, qv, pos) == Dot(qv, idx.vecs[pos])

\* index.search(query, k): the k entries of highest inner product, highest
\* first.  Entries are named by position 1..ntotal (faiss: 0..ntotal-1).  The
\* order among equal scores is the library's business: every order is allowed.
FaissSearch(idx, qv, k) ==
  LET n == Len(idx.vecs)
      scores == [p \in 1..n |-> Score(idx, qv, p)]
      Best(rest) == {p \in rest : \A r \in rest : scores[p] >= scores[r]}
      RECURSIVE Orders(_, _)
      Orders(m, rest) ==
        IF m = 0 THEN {<<>>}
        ELSE UNION { { <<p>> \o o : o \in Orders(m - 1, rest \ {p}) } : p \in Best(rest) }
  IN  Orders(k, 1..n)

\* mutant: an entry without a doc_type passes every filter
ExcludedOtherTypeOnly(meta, F) ==
  LET dt == DictGet(meta, "doc_type")
  IN  F # {} /\ dt.kind = "str" /\ dt.val \notin F

\* the doc-type test of search: with a filter, an entry whose doc_type is not
\* in it (or that has none) is skipped
Excluded(meta, F) ==
  LET dt == DictGet(meta, "doc_type")
  IN  F # {} /\ ~(dt.kind = "str" /\ dt.val \in F)

\* the result loop of search over the positions found, from the i-th on;
\* output.out is the list built so far, output.picked the positions its
\* entries were taken from
RECURSIVE Collect(_, _, _, _, _, _)
Collect(idx, qv, order, i, output, arg) ==
  IF i > Len(order) THEN [ok |-> TRUE, out |-> output.out, picked |-> output.picked]
  ELSE
  LET pos == order[i]
  IN
  IF pos > Len(chunks) THEN Collect(idx, qv, order, i + 1, output, arg)
  ELSE IF pos > Len(metadatas) THEN [ok |-> FALSE, out |-> <<>>, picked |-> <<>>]
  ELSE
  LET meta == metadatas[pos]
  IN
  IF Excluded(meta, arg.filter)
    THEN Collect(idx, qv, order, i + 1, output, arg)
    ELSE LET entry == [content |-> chunks[pos], metadata |-> meta,
                       distance |-> 25 - Score(idx, qv, pos)]
             grown == [out |-> Append(output.out, entry),
                       picked |-> Append(output.picked, pos)]
         IN  IF Len(grown.out) >= arg.topk
               THEN [ok |-> TRUE, out |-> grown.out, picked |-> grown.picked]
               ELSE Collect(idx, qv, order, i + 1, grown, arg)

Raised(outcome) == [outcome |-> outcome, out |-> <<>>, picked |-> <<>>, fetched |-> <<>>]

Reverse(s) == [i \in DOMAIN s |-> s[Len(s) + 1 - i]]

\* mutant: the result loop walks the positions found from the last to the first
search_reversed(q, top_k, F, w, svc) ==
  IF ~index.some \/ Len(chunks) = 0 THEN {Raised("ok")}
  ELSE IF ~svc THEN {Raised("embed_error")}
  ELSE
  LET query_embedding == Normalize(Embed(w, <<q>>)[1])
      fetch_k == Min(IF F # {} THEN top_k * 4 ELSE top_k, Len(index.vecs))
  IN
  IF w # index.d THEN {Raised("dim_error")}
  ELSE IF fetch_k <= 0 THEN {Raised("k_error"), Raised("ok")}
  ELSE
  { LET c == Collect(index, query_embedding, Reverse(order), 1,
                     [out |-> <<>>, picked |-> <<>>], [topk |-> top_k, filter |-> F])
    IN  IF c.ok THEN [outcome |-> "ok", out |-> c.out, picked |-> c.picked,
                      fetched |-> order]
        ELSE Raised("index_error")
    : order \in FaissSearch(index, query_embedding, fetch_k) }

\* mutant: a filtered search fetches top_k entries, as one without a filter
search_without_overfetch(q, top_k, F, w, svc) ==
  IF ~index.some \/ Len(chunks) = 0 THEN {Raised("ok")}
  ELSE IF ~svc THEN {Raised("embed_error")}
  ELSE
  LET query_embedding == Normalize(Embed(w, <<q>>)[1])
      fetch_k == Min(top_k, Len(index.vecs))
  IN
  IF w # index.d THEN {Raised("dim_error")}
  ELSE IF fetch_k <= 0 THEN {Raised("k_error"), Raised("ok")}
  ELSE
  { LET c == Collect(index, query_embedding, order, 1,
                     [out |-> <<>>, picked |-> <<>>], [topk |-> top_k, filter |-> F])
    IN  IF c.ok THEN [outcome |-> "ok", out |-> c.out, picked |-> c.picked,
                      fetched |-> order]
        ELSE Raised("index_error")
    : order \in FaissSearch(index, query_embedding, fetch_k) }

\* VectorStore.search(q, top_k, include_doc_types = F): every result the call
\* can have with a service that answers with width w, or fails (svc = FALSE):
\* the list returned, and as history the positions `indices` the index found
\* (fetched) and those the entries returned were taken from (picked)
search(q, top_k, F, w, svc) ==
  IF ~index.some \/ Len(chunks) = 0 THEN {Raised("ok")}
  ELSE IF ~svc THEN {Raised("embed_error")}
  ELSE
  LET query_embedding == Normalize(Embed(w, <<q>>)[1])
      fetch_k == Min(IF F # {} THEN top_k * 4 ELSE top_k, Len(index.vecs))
  IN
  IF w # index.d THEN {Raised("dim_error")}
  ELSE IF fetch_k <= 0 THEN {Raised("k_error"), Raised("ok")}
  ELSE
  { LET c == Collect(index, query_embedding, order, 1,
                     [out |-> <<>>, picked |-> <<>>], [topk |-> top_k, filter |-> F])
    IN  IF c.ok THEN [outcome |-> "ok", out |-> c.out, picked |-> c.picked,
                      fetched |-> order]
        ELSE Raised("index_error")
    : order \in FaissSearch(index, query_embedding, fetch_k) }

\* the doc-type filters tried: none, one type, both types
Filters == {{}, {"resume"}, DocTypes}

\* A call the service or the width check of the index turns down is tried with
\* one query, top_k and filter, and recorded without them.
Search ==
  /\ open
  /\ \E w \in Widths, svc \in BOOLEAN :
     \E turned \in {index.some /\ Len(chunks) > 0 /\ (~svc \/ w # index.d)} :
     \E q \in (IF turned THEN {"q"} ELSE Queries),
        top_k \in (IF turned THEN {1} ELSE 0..MaxTopK),
        F \in (IF turned THEN {{}} ELSE Filters) :
       \E r \in search(q, top_k, F, w, svc) :
         /\ last' = [op |-> "search", outcome |-> r.outcome, nchunks |-> 0,
                     mismatch |-> FALSE, batches |-> 0, requests |-> 0, ret |-> 0,
                     topk |-> IF turned THEN 0 ELSE top_k,
                     filter |-> IF turned THEN {} ELSE F, out |-> r.out]
         /\ UNCHANGED <<open, index, chunks, metadatas, indexFile, metaFile,
                        tally, cleared, irregular>>

\* ---------------------------------------------------------------- behaviours
\* a new store on an empty directory
Init ==
  /\ open = TRUE
  /\ index = NoIndex
  /\ chunks = <<>>
  /\ metadatas = <<>>
  /\ indexFile = AbsentIndexFile
  /\ metaFile = AbsentMetaFile
  /\ last = Call("open", "ok", 0, FALSE, 0, 0, 0)
  /\ tally = [on |-> TRUE, sum |-> 0]
  /\ cleared = FALSE
  /\ irregular = 0

Next == AddChunks \/ Clear \/ Open \/ Search

Spec == Init /\ [][Next]_vars

\* ---------------------------------------------------------------- metadata values
\* Python values a metadata record may hold: scalars, None, lists, dicts and
\* values of other kinds (tuples), truthy and not
PyValues ==
  { PyStr("resume"),
    [kind |-> "int", val |-> "0"],
    [kind |-> "float", val |-> "1.5"],
    [kind |-> "bool", val |-> "False"],
    PyNone,
    [kind |-> "list", val |-> "[]"],
    [kind |-> "dict", val |-> "{'a': 1}"],
    [kind |-> "tuple", val |-> "()"],
    [kind |-> "tuple", val |-> "(1,)"] }

\* the metadata records tried: no key, one key, two keys
RichMetas ==
  {{}} \cup { {<<"doc_type", v>>} : v \in PyValues }
       \cup { {<<"doc_type", PyStr("resume")>>, <<"page", v>>} : v \in PyValues }

\* add_chunks with n chunks and their metadata records, the embedding service
\* and the file writes working; the call keeps the records it was passed
AddChunksMeta ==
  /\ open
  /\ \E n \in 1..MaxCall :
       /\ Len(chunks) + n <= MaxEntries
       /\ \E ms \in [1..n -> RichMetas] :
          \E r \in {add_chunks([i \in 1..n |-> "a"], ms, 2, 1, 0, "ok")} :
            /\ index' = r.index
            /\ chunks' = r.chunks
            /\ metadatas' = r.metadatas
            /\ indexFile' = r.indexFile
            /\ metaFile' = r.metaFile
            /\ last' = [op |-> "add_chunks", outcome |-> r.outcome, nchunks |-> n,
                        ret |-> r.ret, passed |-> ms]
            /\ tally' = [tally EXCEPT !.sum = @ + r.ret]
            /\ UNCHANGED <<open, cleared, irregular>>

NextMeta == AddChunksMeta

SpecMeta == Init /\ [][NextMeta]_vars

\* ---------------------------------------------------------------- batching
\* longest chunk list of the calls whose requests are followed
MaxBatchCall == 4

\* the batch sizes of those calls
BatchSizesTried == {1, 2, 3}

\* add_chunks with n chunks of any content, the index taking the vectors and
\* the files written; the call keeps what it was passed and the batches it
\* requested of the embedding service
AddChunksBatch ==
  /\ open
  /\ \E n \in 0..MaxBatchCall, bs \in BatchSizesTried :
       /\ Len(chunks) + n <= MaxBatchCall
       /\ \E failAt \in 0..NumBatches(n, bs), cs \in [1..n -> Texts] :
          \E r \in {add_chunks(cs, [i \in 1..n |-> MetaOf("resume")], bs, 1, failAt, "ok")} :
            /\ index' = r.index
            /\ chunks' = r.chunks
            /\ metadatas' = r.metadatas
            /\ indexFile' = r.indexFile
            /\ metaFile' = r.metaFile
            /\ last' = [op |-> "add_chunks", outcome |-> r.outcome, nchunks |-> n,
                        ret |-> r.ret, passed |-> cs, batch_size |-> bs,
                        failAt |-> failAt, sent |-> r.sent]
            /\ tally' = [tally EXCEPT !.sum = @ + r.ret]
            /\ UNCHANGED <<open, cleared, irregular>>

NextBatch == AddChunksBatch

SpecBatch == Init /\ [][NextBatch]_vars

\* ---------------------------------------------------------------- alignment
\* The pairs a call may bring: a text with a metadata record, one of them
\* with a value that is no scalar.  In these behaviours `tally` keeps, as
\* history, the pairs the add_chunks calls that returned have passed since the
\* store was last empty (tally.passed), in the order they were passed.
AlignDocs ==
  { [text |-> t, meta |-> m] :
      t \in Texts,
      m \in { MetaOf("resume"), MetaOf("book"),
              {<<"doc_type", PyStr("resume")>>, <<"tags", [kind |-> "list", val |-> "[]"]>>} } }

InitAlign ==
  /\ open = TRUE
  /\ index = NoIndex
  /\ chunks = <<>>
  /\ metadatas = <<>>
  /\ indexFile = AbsentIndexFile
  /\ metaFile = AbsentMetaFile
  /\ last = [op |-> "open", outcome |-> "ok"]
  /\ tally = [on |-> TRUE, sum |-> 0, passed |-> <<>>]
  /\ cleared = FALSE
  /\ irregular = 0

\* add_chunks with lists of equal length; the service may fail on a request
\* or answer with another width
AddChunksAlign ==
  /\ open
  /\ \E n \in 1..MaxEntries, bs \in BatchSizes, w \in Widths :
       /\ Len(chunks) + n <= MaxCall
       /\ \E failAt \in 0..NumBatches(n, bs), ds \in [1..n -> AlignDocs] :
          \E r \in {add_chunks(ChunksOf(ds), MetasOf(ds, 0), bs, w, failAt, "ok")} :
            /\ index' = r.index
            /\ chunks' = r.chunks
            /\ metadatas' = r.metadatas
            /\ indexFile' = r.indexFile
            /\ metaFile' = r.metaFile
            /\ last' = [op |-> "add_chunks", outcome |-> r.outcome]
            /\ tally' = IF r.outcome = "ok"
                          THEN [tally EXCEPT !.sum = @ + r.ret, !.passed = @ \o ds]
                          ELSE tally
            /\ UNCHANGED <<open, cleared, irregular>>

ClearAlign ==
  /\ open
  /\ LET r == clear(TRUE)
     IN  /\ index' = r.index
         /\ chunks' = r.chunks
         /\ metadatas' = r.metadatas
         /\ indexFile' = r.indexFile
         /\ metaFile' = r.metaFile
         /\ last' = [op |-> "clear", outcome |-> "ok"]
         /\ tally' = [on |-> TRUE, sum |-> 0, passed |-> <<>>]
         /\ UNCHANGED <<open, cleared, irregular>>

\* a new VectorStore object on the same files
OpenAlign ==
  /\ last.op # "open"
  /\ LET r == Load(indexFile, metaFile)
     IN  /\ open' = r.ok
         /\ index' = r.index
         /\ chunks' = r.chunks
         /\ metadatas' = r.metadatas
         /\ last' = [op |-> "open", outcome |-> IF r.ok THEN "ok" ELSE "load_error"]
         /\ UNCHANGED <<indexFile, metaFile, tally, cleared, irregular>>

\* a search the embedding service answers, with the model of the index
SearchAlign ==
  /\ open
  /\ last.op # "search"
  /\ \E q \in Queries, top_k \in 1..MaxCall, F \in Filters :
     \E r \in search(q, top_k, F, index.d, TRUE) :
       /\ last' = [op |-> "search", outcome |-> r.outcome, out |-> r.out,
                   picked |-> r.picked]
       /\ UNCHANGED <<open, index, chunks, metadatas, indexFile, metaFile,
                      tally, cleared, irregular>>

NextAlign == AddChunksAlign \/ ClearAlign \/ OpenAlign \/ SearchAlign

SpecAlign == InitAlign /\ [][NextAlign]_vars

\* ---------------------------------------------------------------- ranking
\* number of entries of the stores searched for their ranking
RankEntries == 3

\* the chunks of those stores: three resume texts of different embeddings, a
\* book text, a text without doc_type
RankDocs ==
  Docs \cup { [text |-> "b", meta |-> MetaOf("resume")],
              [text |-> "c", meta |-> MetaOf("resume")] }

\* a store as add_chunks leaves it after one call with RankEntries chunks on an
\* empty directory
InitRank ==
  \E ds \in [1..RankEntries -> RankDocs], w \in Widths :
    /\ open = TRUE
    /\ index = [some |-> TRUE, d |-> w,
                vecs |-> [i \in 1..RankEntries |-> Normalize(EmbeddingOf(w, ds[i].text))]]
    /\ chunks = ChunksOf(ds)
    /\ metadatas = CleanMetadatas(MetasOf(ds, 0))
    /\ indexFile = IndexFileOf(index)
    /\ metaFile = MetaFileOf(chunks, metadatas)
    /\ last = [op |-> "add_chunks", outcome |-> "ok"]
    /\ tally = [on |-> TRUE, sum |-> RankEntries]
    /\ cleared = FALSE
    /\ irregular = 0

\* a search the embedding service answers, with the model the index was built
\* with; the call keeps its query and the positions of the entries returned.
\* search changes nothing of the store, so the searches of a store are all
\* tried as its first.
SearchRank ==
  /\ open
  /\ last.op = "add_chunks"
  /\ \E q \in Queries, top_k \in 1..RankEntries, F \in Filters :
     \E r \in search(q, top_k, F, index.d, TRUE) :
       /\ last' = [op |-> "search", outcome |-> r.outcome, query |-> q,
                   topk |-> top_k, filter |-> F, out |-> r.out, picked |-> r.picked]
       /\ UNCHANGED <<open, index, chunks, metadatas, indexFile, metaFile,
                      tally, cleared, irregular>>

NextRank == SearchRank

SpecRank == InitRank /\ [][NextRank]_vars

\* ---------------------------------------------------------------- over-fetch
\* number of entries of the stores searched with a filter: more than 4 * top_k
FetchEntries == 5
\* the factor a filtered search multiplies top_k with
OverFetch == 4

\* the chunks of those stores: a book text near the query "a", resume texts
\* farther from it
FetchDocs ==
  { [text |-> "a", meta |-> MetaOf("book")],
    [text |-> "b", meta |-> MetaOf("resume")],
    [text |-> "c", meta |-> MetaOf("resume")] }

\* the width of the embeddings of those stores
FetchWidth == 2

\* a store as add_chunks leaves it after one call with FetchEntries chunks on
\* an empty directory
InitFetch ==
  \E ds \in [1..FetchEntries -> FetchDocs] :
    /\ open = TRUE
    /\ index = [some |-> TRUE, d |-> FetchWidth,
                vecs |-> [i \in 1..FetchEntries |->
                            Normalize(EmbeddingOf(FetchWidth, ds[i].text))]]
    /\ chunks = ChunksOf(ds)
    /\ metadatas = CleanMetadatas(MetasOf(ds, 0))
    /\ indexFile = IndexFileOf(index)
    /\ metaFile = MetaFileOf(chunks, metadatas)
    /\ last = [op |-> "add_chunks", outcome |-> "ok"]
    /\ tally = [on |-> TRUE, sum |-> FetchEntries]
    /\ cleared = FALSE
    /\ irregular = 0

\* a search the embedding service answers; the call keeps its query, the
\* positions the index found and the positions of the entries returned
SearchFetch ==
  /\ open
  /\ last.op = "add_chunks"
  /\ \E q \in Queries, top_k \in 1..MaxTopK, F \in Filters :
     \E r \in search(q, top_k, F, index.d, TRUE) :
       /\ last' = [op |-> "search", outcome |-> r.outcome, query |-> q,
                   topk |-> top_k, filter |-> F, out |-> r.out, picked |-> r.picked,
                   fetched |-> r.fetched]
       /\ UNCHANGED <<open, index, chunks, metadatas, indexFile, metaFile,
                      tally, cleared, irregular>>

NextFetch == SearchFetch

SpecFetch == InitFetch /\ [][NextFetch]_vars

\* ---------------------------------------------------------------- chunker
\* A text is the sequence of its characters.
\* longest text handed to chunk_text
MaxText == 6
\* largest chunk_size (1 or more) and overlap (0 or more) handed to the chunker
MaxSize == 4

\* the characters of the texts tried: a letter, a space, a newline
Chars == {"x", " ", "\n"}

\* whitespace, as str.strip sees it
IsSpace(c) == c \in {" ", "\n"}

RECURSIVE LStrip(_)
LStrip(s) == IF s = <<>> \/ ~IsSpace(Head(s)) THEN s ELSE LStrip(Tail(s))

RECURSIVE RStrip(_)
RStrip(s) ==
  IF s = <<>> \/ ~IsSpace(s[Len(s)]) THEN s ELSE RStrip(SubSeq(s, 1, Len(s) - 1))

\* mutant: only the start is trimmed
StripLeft(s) == LStrip(s)

\* str.strip()
Strip(s) == RStrip(LStrip(s))

Max(a, b) == IF a >= b THEN a ELSE b

\* mutant: the slice takes the character at its end too
SliceInclusive(s, from, to) == SubSeq(s, from + 1, Min(to + 1, Len(s)))

\* s[from:] and s[from:to] of Python, positions counted from 0, from, to >= 0
SliceFrom(s, from) == SubSeq(s, from + 1, Len(s))
Slice(s, from, to) == SubSeq(s, from + 1, Min(to, Len(s)))

\* str.split(sep), sep not empty: the pieces between the occurrences of sep,
\* found from the left; i is the position looked at, cur the piece begun
RECURSIVE SplitFrom(_, _, _, _, _)
SplitFrom(text, sep, i, cur, acc) ==
  IF i > Len(text) THEN Append(acc, cur)
  ELSE IF i + Len(sep) - 1 <= Len(text) /\ SubSeq(text, i, i + Len(sep) - 1) = sep
    THEN SplitFrom(text, sep, i + Len(sep), <<>>, Append(acc, cur))
    ELSE SplitFrom(text, sep, i + 1, Append(cur, text[i]), acc)

Split(text, sep) == SplitFrom(text, sep, 1, <<>>, <<>>)

\* the loop of _recursive_split over the parts, from the i-th on
RECURSIVE MergeParts(_, _, _, _, _, _, _)
MergeParts(parts, sep, chunk_size, overlap, i, current, cks) ==
  IF i > Len(parts)
    THEN IF Strip(current) # <<>> THEN Append(cks, Strip(current)) ELSE cks
  ELSE
  LET part == parts[i]
      piece == IF sep \notin {<<"\n">>, <<" ">>} THEN part \o sep ELSE part
  IN
  IF Len(current) + Len(piece) <= chunk_size
    THEN MergeParts(parts, sep, chunk_size, overlap, i + 1, current \o piece, cks)
    ELSE LET closed == IF Strip(current) # <<>> THEN Append(cks, Strip(current)) ELSE cks
             overlap_start == Max(0, Len(current) - overlap)
         IN  MergeParts(parts, sep, chunk_size, overlap, i + 1,
                        SliceFrom(current, overlap_start) \o piece, closed)

\* the character windows of _recursive_split: range(i, len(text), step), step > 0
RECURSIVE Windows(_, _, _, _, _)
Windows(text, chunk_size, step, i, cks) ==
  IF i >= Len(text) THEN cks
  ELSE LET chunk == Slice(text, i, i + chunk_size)
       IN  Windows(text, chunk_size, step, i + step,
                   IF Strip(chunk) # <<>> THEN Append(cks, Strip(chunk)) ELSE cks)

Returned(cks) == [outcome |-> "ok", out |-> cks]

\* _recursive_split(text, separators, chunk_size, overlap), chunk_size >= 0 and
\* overlap >= 0.  range() raises ValueError for a step of 0 and is empty for a
\* step below 0.
recursive_split(text, separators, chunk_size, overlap) ==
  IF text = <<>> \/ Strip(text) = <<>> THEN Returned(<<>>)
  ELSE IF Len(text) <= chunk_size
    THEN Returned(IF Strip(text) # <<>> THEN <<Strip(text)>> ELSE <<>>)
  ELSE
  LET sep == IF separators # <<>> THEN separators[1] ELSE <<>>
      parts == IF sep # <<>> THEN Split(text, sep) ELSE <<text>>
      step == chunk_size - overlap
  IN
  IF sep # <<>> /\ Len(parts) > 1
    THEN Returned(MergeParts(parts, sep, chunk_size, overlap, 1, <<>>, <<>>))
  ELSE IF step = 0 THEN [outcome |-> "value_error", out |-> <<>>]
  ELSE IF step < 0 THEN Returned(<<>>)
  ELSE Returned(Windows(text, chunk_size, step, 0, <<>>))

Separators == << <<"\n", "\n">>, <<"\n">>, <<".", " ">>, <<" ">>, <<>> >>

\* chunk_text(text, chunk_size, overlap)
chunk_text(text, chunk_size, overlap) ==
  recursive_split(text, Separators, chunk_size, overlap)

\* a Python int, by its printed form
PyInt(i) == [kind |-> "int", val |-> ToString(i)]

\* {**m, k: v}
DictSet(m, k, v) == {p \in m : p[1] # k} \cup {<<k, v>>}

\* mutant: chunk_index goes on counting from one document to the next
RECURSIVE ChunkDocsGlobalIndex(_, _, _, _, _)
ChunkDocsGlobalIndex(documents, chunk_size, overlap, d, out) ==
  IF d > Len(documents)
    THEN [outcome |-> "ok", out |-> out, documents |-> documents]
  ELSE
  LET r == chunk_text(documents[d].text, chunk_size, overlap)
  IN  IF r.outcome # "ok"
        THEN [outcome |-> r.outcome, out |-> out, documents |-> documents]
        ELSE ChunkDocsGlobalIndex(documents, chunk_size, overlap, d + 1,
               out \o [i \in 1..Len(r.out) |->
                         [chunk |-> r.out[i],
                          meta |-> DictSet(documents[d].meta, "chunk_index",
                                           PyInt(Len(out) + i - 1))]])

chunk_documents_global_index(documents, chunk_size, overlap) ==
  ChunkDocsGlobalIndex(documents, chunk_size, overlap, 1, <<>>)

\* the loop of chunk_documents over the documents, from the d-th on; out is
\* what was yielded so far.  An error of chunk_text ends the generator.
RECURSIVE ChunkDocsFrom(_, _, _, _, _)
ChunkDocsFrom(documents, chunk_size, overlap, d, out) ==
  IF d > Len(documents)
    THEN [outcome |-> "ok", out |-> out, documents |-> documents]
  ELSE
  LET r == chunk_text(documents[d].text, chunk_size, overlap)
  IN  IF r.outcome # "ok"
        THEN [outcome |-> r.outcome, out |-> out, documents |-> documents]
        ELSE ChunkDocsFrom(documents, chunk_size, overlap, d + 1,
               out \o [i \in 1..Len(r.out) |->
                         [chunk |-> r.out[i],
                          meta |-> DictSet(documents[d].meta, "chunk_index",
                                           PyInt(i - 1))]])

\* chunk_documents(documents, chunk_size, overlap), consumed to its end: what
\* it yielded, and the documents as they are afterwards
chunk_documents(documents, chunk_size, overlap) ==
  ChunkDocsFrom(documents, chunk_size, overlap, 1, <<>>)

\* every text of at most n characters
RECURSIVE TextsUpTo(_)
TextsUpTo(n) ==
  IF n = 0 THEN {<<>>}
  ELSE LET shorter == TextsUpTo(n - 1)
       IN  shorter \cup {Append(t, c) : t \in {u \in shorter : Len(u) = n - 1}, c \in Chars}

\* the documents handed to chunk_documents: texts of no, one and several
\* chunks, a metadata record with a chunk_index of its own and one without
DocTexts ==
  { <<>>, <<"x">>, <<"x", " ", "x", " ", "x">>, <<"x", "x", "\n", "\n", "x">> }
DocMetas ==
  { MetaOf("resume"), {<<"doc_type", PyStr("book")>>, <<"chunk_index", PyInt(7)>>} }
DocLists ==
  LET D == {[text |-> t, meta |-> m] : t \in DocTexts, m \in DocMetas}
  IN  {<<>>} \cup {<<d>> : d \in D} \cup {<<d1, d2>> : d1 \in D, d2 \in D}

\* the calls tried: chunk_text on any text, chunk_documents on up to two
\* documents
ChunkInputs ==
  { [op |-> "chunk_text_args", text |-> t, chunk_size |-> cs, overlap |-> ov] :
       t \in TextsUpTo(MaxText), cs \in 1..MaxSize, ov \in 0..MaxSize }
  \cup
  { [op |-> "chunk_documents_args", documents |-> ds, chunk_size |-> cs, overlap |-> ov] :
       ds \in DocLists, cs \in 1..MaxSize, ov \in 0..MaxSize }

\* the arguments of a call to the chunker are chosen; the store plays no part
InitChunk ==
  /\ open = TRUE
  /\ index = NoIndex
  /\ chunks = <<>>
  /\ metadatas = <<>>
  /\ indexFile = AbsentIndexFile
  /\ metaFile = AbsentMetaFile
  /\ last \in ChunkInputs
  /\ tally = [on |-> TRUE, sum |-> 0]
  /\ cleared = FALSE
  /\ irregular = 0

\* chunk_text on the arguments chosen
ChunkText ==
  /\ last.op = "chunk_text_args"
  /\ \E r \in {chunk_text(last.text, last.chunk_size, last.overlap)} :
       last' = [op |-> "chunk_text", text |-> last.text,
                chunk_size |-> last.chunk_size, overlap |-> last.overlap,
                outcome |-> r.outcome, out |-> r.out]
  /\ UNCHANGED <<open, index, chunks, metadatas, indexFile, metaFile,
                 tally, cleared, irregular>>

\* chunk_documents on the arguments chosen
ChunkDocuments ==
  /\ last.op = "chunk_documents_args"
  /\ \E r \in {chunk_documents(last.documents, last.chunk_size, last.overlap)} :
       last' = [op |-> "chunk_documents", documents |-> last.documents,
                chunk_size |-> last.chunk_size, overlap |-> last.overlap,
                outcome |-> r.outcome, out |-> r.out, after |-> r.documents]
  /\ UNCHANGED <<open, index, chunks, metadatas, indexFile, metaFile,
                 tally, cleared, irregular>>

NextChunk == ChunkText \/ ChunkDocuments

SpecChunk == InitChunk /\ [][NextChunk]_vars

\* ---------------------------------------------------------------- sanitizer
\* A resume text is the sequence of its lines (text.splitlines()).  A line is
\* known by what the sanitizer asks of it: which of its patterns it matches,
\* and whether it has whitespace at its start and at its end.  Every pattern
\* allows whitespace at both ends, so trimming a line leaves its kind alone.
\*   "blank"   : line.strip() is empty
\*   "cut"     : matches _CUT_SECTION_HEADERS ("Changes Made:")
\*   "drop"    : matches _DROP_LINE_PATTERNS ("I am applying for ...")
\*   "section" : matches _SECTION_START_HINTS ("Summary:")
\*   "bold"    : a bold name line ("**Jane Doe**")
\*   "text"    : any other line

\* filtered[:60]
ScanLines == 60
\* blank_run <= 2
MaxBlankRun == 2
\* max(0, i - 2)
LinesBefore == 2

Line(kind, ws) == [kind |-> kind, lead |-> ws, trail |-> ws]

\* mutant: a section header gets no lines of context
ScanStartNoContext(filtered) ==
  LET hits == { i \in 0..(Min(ScanLines, Len(filtered)) - 1) :
                  filtered[i + 1].kind \in {"section", "bold"} }
  IN  IF hits = {} THEN 0
      ELSE CHOOSE h \in hits : \A g \in hits : h <= g

\* the loop over the first lines of `filtered`: the start index it settles
\* on, by the first line (index counted from 0) that is a section header or a
\* bold name
ScanStart(filtered) ==
  LET hits == { i \in 0..(Min(ScanLines, Len(filtered)) - 1) :
                  filtered[i + 1].kind \in {"section", "bold"} }
  IN  IF hits = {} THEN 0
      ELSE LET i == CHOOSE h \in hits : \A g \in hits : h <= g
           IN  IF filtered[i + 1].kind = "section" THEN Max(0, i - LinesBefore) ELSE i

\* line.rstrip()
RStripLine(line) ==
  IF line.kind = "blank" THEN Line("blank", FALSE) ELSE [line EXCEPT !.trail = FALSE]

\* blank_run > 2 when the whitespace loop is at the blank line i: the
\* MaxBlankRun lines before it are blank too
BlankRunOver(filtered, i) ==
  i > MaxBlankRun /\ \A j \in (i - MaxBlankRun)..(i - 1) : filtered[j].kind = "blank"

\* the whitespace loop: blank lines beyond the second of a run are left out,
\* the other lines lose the whitespace at their end
Collapse(filtered) ==
  LET taken == SelectSeq([i \in DOMAIN filtered |-> i],
                         LAMBDA i : filtered[i].kind # "blank" \/ ~BlankRunOver(filtered, i))
  IN  [k \in DOMAIN taken |-> RStripLine(filtered[taken[k]])]

RECURSIVE DropBlankStart(_)
DropBlankStart(ls) ==
  IF ls # <<>> /\ Head(ls).kind = "blank" THEN DropBlankStart(Tail(ls)) ELSE ls

RECURSIVE DropBlankEnd(_)
DropBlankEnd(ls) ==
  IF ls # <<>> /\ ls[Len(ls)].kind = "blank"
    THEN DropBlankEnd(SubSeq(ls, 1, Len(ls) - 1)) ELSE ls

\* "\n".join(out).strip(), as lines: the blank lines at both ends go, and so
\* does the whitespace at the start of the first line and the end of the last
JoinStrip(out) ==
  LET ls == DropBlankEnd(DropBlankStart(out))
  IN  [i \in DOMAIN ls |->
         [ls[i] EXCEPT !.lead = IF i = 1 THEN FALSE ELSE @,
                       !.trail = IF i = Len(ls) THEN FALSE ELSE @]]

\* sanitize_resume_text(text)
sanitize_resume_text(text) ==
  IF text = <<>> THEN <<>>
  ELSE
  LET cuts == {i \in DOMAIN text : text[i].kind = "cut"}
      kept == IF cuts = {} THEN text
              ELSE SubSeq(text, 1, (CHOOSE i \in cuts : \A j \in cuts : i <= j) - 1)
      filtered == SelectSeq(kept, LAMBDA line : line.kind # "drop")
      start_idx == ScanStart(filtered)
  IN  JoinStrip(Collapse(SliceFrom(filtered, start_idx)))

\* most runs of equal lines in a text
MaxRuns == 3

\* the lines a text is made of, and how many of the same follow each other
LineTypes ==
  { Line("blank", FALSE), Line("blank", TRUE), Line("text", FALSE), Line("text", TRUE),
    Line("cut", FALSE), Line("drop", FALSE), Line("section", FALSE), Line("bold", FALSE) }
RunLengths == {1, 3, ScanLines}

RECURSIVE RunsUpTo(_)
RunsUpTo(n) ==
  IF n = 0 THEN {<<>>}
  ELSE LET shorter == RunsUpTo(n - 1)
       IN  shorter \cup { Append(rs, [line |-> l, n |-> k]) :
                            rs \in {u \in shorter : Len(u) = n - 1},
                            l \in LineTypes, k \in RunLengths }

\* the text of the runs
RECURSIVE Expand(_)
Expand(runs) ==
  IF runs = <<>> THEN <<>>
  ELSE [i \in 1..Head(runs).n |-> Head(runs).line] \o Expand(Tail(runs))

\* a text is chosen; the store plays no part
InitSanitize ==
  /\ open = TRUE
  /\ index = NoIndex
  /\ chunks = <<>>
  /\ metadatas = <<>>
  /\ indexFile = AbsentIndexFile
  /\ metaFile = AbsentMetaFile
  /\ \E runs \in RunsUpTo(MaxRuns) : last = [op |-> "sanitize_args", runs |-> runs]
  /\ tally = [on |-> TRUE, sum |-> 0]
  /\ cleared = FALSE
  /\ irregular = 0

\* sanitize_resume_text on the text chosen
Sanitize ==
  /\ last.op = "sanitize_args"
  /\ LET text == Expand(last.runs)
     IN  last' = [op |-> "sanitize_resume_text", pass |-> 1, text |-> text,
                  out |-> sanitize_resume_text(text)]
  /\ UNCHANGED <<open, index, chunks, metadatas, indexFile, metaFile,
                 tally, cleared, irregular>>

\* sanitize_resume_text on the text the call before returned
SanitizeAgain ==
  /\ last.op = "sanitize_resume_text" /\ last.pass = 1
  /\ last' = [op |-> "sanitize_resume_text", pass |-> 2, text |-> last.out,
              out |-> sanitize_resume_text(last.out)]
  /\ UNCHANGED <<open, index, chunks, metadatas, indexFile, metaFile,
                 tally, cleared, irregular>>

NextSanitize == Sanitize \/ SanitizeAgain

SpecSanitize == InitSanitize /\ [][NextSanitize]_vars

\* ---------------------------------------------------------------- loaders
\* A file of the sources directory: the folders between the directory and the
\* file (`dirs`), its name (stem and suffix), whether it is a regular file,
\* the text its loader extracts (as lines, see the sanitizer) and whether the
\* loader returns at all (it raises on a file it cannot read or parse).

\* most entries sources_dir.rglob("*") finds
MaxFiles == 3

\* str.lower(), on the names of the model (every other name is in lower case)
Lower(s) ==
  CASE s = "Resumes" -> "resumes"
    [] s = ".PDF" -> ".pdf"
    [] OTHER -> s

Supported == {".pdf", ".docx", ".doc", ".txt", ".md", ".markdown"}

PyTrue == [kind |-> "bool", val |-> "True"]

\* file_path.name
NameOf(file) == file.stem \o file.suffix

\* text.strip() of a text given by its lines
StripText(text) == JoinStrip(text)

\* load_document(file_path, doc_type)
load_document(file, doc_type) ==
  IF Lower(file.suffix) \notin Supported
    THEN [outcome |-> "value_error", text |-> <<>>, metadata |-> {}]
  ELSE IF ~file.loads
    THEN [outcome |-> "load_error", text |-> <<>>, metadata |-> {}]
  ELSE
  LET metadata == {<<"source", PyStr(NameOf(file))>>, <<"doc_type", PyStr(doc_type)>>}
      cleaned == StripText(file.text)
  IN  IF doc_type = "resume"
        THEN [outcome |-> "ok", text |-> sanitize_resume_text(cleaned),
              metadata |-> DictSet(metadata, "sanitized", PyTrue)]
        ELSE [outcome |-> "ok", text |-> cleaned, metadata |-> metadata]

\* mutant: the folder is compared as it is spelled
infer_doc_type_as_spelled(file) ==
  LET parts == Append(file.dirs, NameOf(file))
      folder == parts[1]
  IN  CASE folder = "resumes" -> "resume"
        [] folder = "experiences" -> "experience"
        [] folder = "books" -> "book"
        [] OTHER -> "experience"

\* _infer_doc_type(file_path, sources_dir), file_path found below sources_dir
infer_doc_type(file) ==
  LET parts == Append(file.dirs, NameOf(file))
      folder == Lower(parts[1])
  IN  CASE folder = "resumes" -> "resume"
        [] folder = "experiences" -> "experience"
        [] folder = "books" -> "book"
        [] OTHER -> "experience"

\* mutant: the first file whose load raises ends the scan
RECURSIVE LoadFromUntilError(_, _, _)
LoadFromUntilError(files, i, acc) ==
  IF i > Len(files) THEN acc
  ELSE
  LET file_path == files[i]
  IN
  IF ~(file_path.isfile /\ Lower(file_path.suffix) \in Supported)
    THEN LoadFromUntilError(files, i + 1, acc)
  ELSE
  LET r == load_document(file_path, infer_doc_type(file_path))
  IN  IF r.outcome # "ok" THEN [acc EXCEPT !.warnings = Append(@, i)]
      ELSE IF r.text # <<>>
        THEN LoadFromUntilError(files, i + 1,
               [acc EXCEPT !.out = Append(@, [text |-> r.text, metadata |-> r.metadata]),
                           !.from = Append(@, i)])
      ELSE LoadFromUntilError(files, i + 1, acc)

load_documents_until_error(exists, files) ==
  IF ~exists THEN [out |-> <<>>, from |-> <<>>, warnings |-> <<>>]
  ELSE LoadFromUntilError(files, 1, [out |-> <<>>, from |-> <<>>, warnings |-> <<>>])

\* the loop of load_documents_from_dir over the entries found, from the i-th
\* on; acc.out is what was yielded so far, acc.from the entries the pairs were
\* made of, acc.warnings the entries a warning was printed for
RECURSIVE LoadFrom(_, _, _)
LoadFrom(files, i, acc) ==
  IF i > Len(files) THEN acc
  ELSE
  LET file_path == files[i]
  IN
  IF ~(file_path.isfile /\ Lower(file_path.suffix) \in Supported)
    THEN LoadFrom(files, i + 1, acc)
  ELSE
  LET r == load_document(file_path, infer_doc_type(file_path))
  IN  IF r.outcome # "ok"
        THEN LoadFrom(files, i + 1, [acc EXCEPT !.warnings = Append(@, i)])
      ELSE IF r.text # <<>>
        THEN LoadFrom(files, i + 1,
               [acc EXCEPT !.out = Append(@, [text |-> r.text, metadata |-> r.metadata]),
                           !.from = Append(@, i)])
      ELSE LoadFrom(files, i + 1, acc)

\* load_documents_from_dir(sources_dir), consumed to its end; `exists` is
\* sources_dir.exists(), `files` what rglob finds, in the order it finds it
load_documents_from_dir(exists, files) ==
  IF ~exists THEN [out |-> <<>>, from |-> <<>>, warnings |-> <<>>]
  ELSE LoadFrom(files, 1, [out |-> <<>>, from |-> <<>>, warnings |-> <<>>])

\* the texts of the files: a line; a resume with a "Changes Made:" section at
\* its end; a text with blank lines and whitespace around it; a text that is
\* all "Changes Made:" section
FileTexts ==
  { << Line("text", FALSE) >>,
    << Line("text", FALSE), Line("cut", FALSE), Line("text", FALSE) >>,
    << Line("blank", FALSE), Line("text", TRUE), Line("blank", TRUE) >>,
    << Line("cut", FALSE), Line("text", FALSE) >> }

\* where the files are: in the three folders (one spelled with a capital), in
\* another folder, in a folder named resumes below another folder, and in the
\* directory itself
FilePlaces ==
  { [dirs |-> <<"resumes">>, stem |-> "cv", suffix |-> ".txt"],
    [dirs |-> <<"Resumes">>, stem |-> "cv", suffix |-> ".md"],
    [dirs |-> <<"experiences">>, stem |-> "job", suffix |-> ".txt"],
    [dirs |-> <<"books">>, stem |-> "book", suffix |-> ".PDF"],
    [dirs |-> <<"notes", "resumes">>, stem |-> "cv", suffix |-> ".docx"],
    [dirs |-> <<>>, stem |-> "resumes", suffix |-> ".md"] }

FileOf(place, isfile, text, loads) ==
  [dirs |-> place.dirs, stem |-> place.stem, suffix |-> place.suffix,
   isfile |-> isfile, text |-> text, loads |-> loads]

\* the entries a scan may find: the files above with each text, or not
\* loadable; a file of an unsupported type; a folder with a supported suffix
Files ==
  { FileOf(p, TRUE, t, TRUE) : p \in FilePlaces, t \in FileTexts }
  \cup { FileOf(p, TRUE, <<>>, FALSE) : p \in FilePlaces }
  \cup { FileOf([dirs |-> <<"experiences">>, stem |-> "data", suffix |-> ".xyz"],
                TRUE, << Line("text", FALSE) >>, TRUE),
         FileOf([dirs |-> <<"resumes">>, stem |-> "old", suffix |-> ".txt"],
                FALSE, <<>>, TRUE) }

PathOf(file) == Append(file.dirs, NameOf(file))

\* no path twice in a listing
DistinctPaths(fs) == \A i, j \in DOMAIN fs : i < j => PathOf(fs[i]) # PathOf(fs[j])

\* a sources directory is chosen; the store plays no part
InitLoad ==
  /\ open = TRUE
  /\ index = NoIndex
  /\ chunks = <<>>
  /\ metadatas = <<>>
  /\ indexFile = AbsentIndexFile
  /\ metaFile = AbsentMetaFile
  /\ \E n \in 0..MaxFiles, exists \in BOOLEAN :
     \E fs \in [1..n -> Files] :
       /\ DistinctPaths(fs)
       /\ ~exists => fs = <<>>
       /\ last = [op |-> "scan_args", exists |-> exists, files |-> fs]
  /\ tally = [on |-> TRUE, sum |-> 0]
  /\ cleared = FALSE
  /\ irregular = 0

\* list(load_documents_from_dir(sources_dir)) on the directory chosen
LoadDocumentsFromDir ==
  /\ last.op = "scan_args"
  /\ \E r \in {load_documents_from_dir(last.exists, last.files)} :
       last' = [op |-> "load_documents_from_dir", exists |-> last.exists,
                files |-> last.files, out |-> r.out, from |-> r.from,
                warnings |-> r.warnings]
  /\ UNCHANGED <<open, index, chunks, metadatas, indexFile, metaFile,
                 tally, cleared, irregular>>

NextLoad == LoadDocumentsFromDir

SpecLoad == InitLoad /\ [][NextLoad]_vars

\* ---------------------------------------------------------------- keywords
\* A job description is the sequence of its lines; a line is a bullet marker
\* ("-" or "*" in its first column) or none, and words separated by single
\* spaces.  A keyword is the sequence of its parts: one word, or the words of
\* a phrase with the whitespace between them.  Lines are shorter than the 60
\* characters a bullet phrase is cut to.

\* most lines of a description, and most words of a line
MaxLines == 2
MaxWords == 2

CA_LEG_KEYWORDS ==
  << "legislative", "constituent", "policy", "committee", "hearing", "briefing",
     "assembly", "senate", "district", "campaign", "constituency", "bill",
     "amendment", "stakeholder", "appropriations", "budget", "analysis",
     "communications", "outreach", "scheduling", "correspondence" >>

\* the words of the descriptions
Words == {"Legislative", "Assistant", "the", "with", "billing", "of"}

\* str.lower() of a word
LowerWord(w) ==
  CASE w = "Legislative" -> "legislative"
    [] w = "Assistant" -> "assistant"
    [] OTHER -> w

\* the word matches [A-Z][a-z]+
Capitalized(w) == w \in {"Legislative", "Assistant"}

\* `term in word`, for a word in lower case
HasTerm(term, w) ==
  \/ term = w
  \/ term = "bill" /\ w = "billing"

\* limits of the bullet step: words of more than 2 characters, the first 5
MinBulletWord == 2
BulletTake == 5
\* limits of the phrase step: 3 to 40 characters
MinPhrase == 3
MaxPhrase == 40
\* the shortest generic word
MinGeneric == 4

StopWords == {"that", "this", "with", "from", "have", "will", "your", "they", "when", "what"}

\* a line of whitespace only
BlankLine(line) == ~line.bullet /\ line.words = <<>>

\* `not text or not text.strip()`
NoText(text) == \A i \in DOMAIN text : BlankLine(text[i])

\* keywords.append for each candidate that is not in `seen`
RECURSIVE AddNew(_, _, _)
AddNew(keywords, cands, i) ==
  IF i > Len(cands) THEN keywords
  ELSE IF \E k \in DOMAIN keywords : keywords[k] = cands[i]
    THEN AddNew(keywords, cands, i + 1)
    ELSE AddNew(Append(keywords, cands[i]), cands, i + 1)

\* step 1: the terms of the vocabulary that occur in the lowered text
VocabularyFound(text) ==
  LET found == SelectSeq(CA_LEG_KEYWORDS,
                 LAMBDA term : \E i \in DOMAIN text : \E j \in DOMAIN text[i].words :
                                 HasTerm(term, LowerWord(text[i].words[j])))
  IN  [k \in DOMAIN found |-> <<found[k]>>]

\* the words step 2 takes of one phrase
PhraseWords(words) ==
  LET long == SelectSeq(words, LAMBDA w : Len(w) > MinBulletWord)
      first == SubSeq(long, 1, Min(BulletTake, Len(long)))
  IN  [k \in DOMAIN first |-> <<LowerWord(first[k])>>]

\* step 2: the matches of ^[\*\-]\s*(.+?)(?:\n|$) from line i on.  The \s*
\* after the marker runs over line ends: a marker with nothing after it takes
\* the next line that is not blank as its phrase, and the search goes on after
\* that line.
RECURSIVE BulletCandidates(_, _)
BulletCandidates(text, i) ==
  IF i > Len(text) THEN <<>>
  ELSE IF ~text[i].bullet THEN BulletCandidates(text, i + 1)
  ELSE IF text[i].words # <<>>
    THEN PhraseWords(text[i].words) \o BulletCandidates(text, i + 1)
  ELSE
  LET later == {j \in DOMAIN text : j > i /\ ~BlankLine(text[j])}
  IN  IF later = {} THEN <<>>
      ELSE LET j == CHOOSE m \in later : \A n \in later : m <= n
           IN  PhraseWords(text[j].words) \o BulletCandidates(text, j + 1)

\* the text as the regular expression of step 3 meets it: the markers and the
\* words in order, each with its line
Stream(text) ==
  LET RECURSIVE From(_)
      From(i) ==
        IF i > Len(text) THEN <<>>
        ELSE (IF text[i].bullet THEN <<[s |-> "-", line |-> i, word |-> FALSE]>> ELSE <<>>)
             \o [j \in DOMAIN text[i].words |->
                   [s |-> text[i].words[j], line |-> i, word |-> TRUE]]
             \o From(i + 1)
  IN  From(1)

RECURSIVE Newlines(_)
Newlines(n) == IF n <= 1 THEN "\n" ELSE "\n" \o Newlines(n - 1)

\* the whitespace between two items of the stream
Between(a, b) == IF a.line = b.line THEN " " ELSE Newlines(b.line - a.line)

RECURSIVE PartsLen(_)
PartsLen(k) == IF k = <<>> THEN 0 ELSE Len(Head(k)) + PartsLen(Tail(k))

\* step 3: the matches of \b([A-Z][a-z]+(?:\s+[A-Z][a-z]+)+)\b, lowered:
\* the longest runs of two or more capitalized words with only whitespace
\* between them, of 3 to 40 characters
PhraseCandidates(text) ==
  LET st == Stream(text)
      Cap(p) == p \in DOMAIN st /\ st[p].word /\ Capitalized(st[p].s)
      starts == SelectSeq([p \in DOMAIN st |-> p],
                          LAMBDA p : Cap(p) /\ ~Cap(p - 1) /\ Cap(p + 1))
      EndOf(p) == CHOOSE q \in p..Len(st) :
                    (\A r \in p..q : Cap(r)) /\ ~Cap(q + 1)
      RECURSIVE Phrase(_, _)
      Phrase(p, q) ==
        IF p = q THEN <<LowerWord(st[p].s)>>
        ELSE <<LowerWord(st[p].s), Between(st[p], st[p + 1])>> \o Phrase(p + 1, q)
      phrases == [k \in DOMAIN starts |-> Phrase(starts[k], EndOf(starts[k]))]
  IN  SelectSeq(phrases,
                LAMBDA ph : MinPhrase <= PartsLen(ph) /\ PartsLen(ph) <= MaxPhrase)

\* step 4: the matches of \b([a-z]{4,})\b in the lowered text that are no
\* stopwords
GenericCandidates(text) ==
  LET st == SelectSeq(Stream(text), LAMBDA it : it.word)
      long == SelectSeq(st, LAMBDA it : /\ Len(LowerWord(it.s)) >= MinGeneric
                                         /\ LowerWord(it.s) \notin StopWords)
  IN  [k \in DOMAIN long |-> <<LowerWord(long[k].s)>>]

\* the list `keywords` of extract_keywords when the four steps are done
Keywords(text) ==
  LET k1 == AddNew(<<>>, VocabularyFound(text), 1)
      k2 == AddNew(k1, BulletCandidates(text, 1), 1)
      k3 == AddNew(k2, PhraseCandidates(text), 1)
  IN  AddNew(k3, GenericCandidates(text), 1)

\* extract_keywords(text, max_keywords), max_keywords >= 0
extract_keywords(text, max_keywords) ==
  IF NoText(text) THEN [keywords |-> <<>>, out |-> <<>>]
  ELSE LET keywords == Keywords(text)
       IN  [keywords |-> keywords, out |-> Slice(keywords, 0, max_keywords)]

\* the lines of the descriptions: up to MaxWords words, with a marker or not
KeywordLines ==
  { [bullet |-> b, words |-> ws] :
      b \in BOOLEAN, ws \in UNION { [1..n -> Words] : n \in 0..MaxWords } }

\* the values of max_keywords tried, the default among them
KeywordLimits == {0, 1, 3, 25}

\* a description and a limit are chosen; the store plays no part
InitKeywords ==
  /\ open = TRUE
  /\ index = NoIndex
  /\ chunks = <<>>
  /\ metadatas = <<>>
  /\ indexFile = AbsentIndexFile
  /\ metaFile = AbsentMetaFile
  /\ \E n \in 0..MaxLines, max_keywords \in KeywordLimits :
     \E text \in [1..n -> KeywordLines] :
       last = [op |-> "extract_keywords_args", text |-> text,
               max_keywords |-> max_keywords]
  /\ tally = [on |-> TRUE, sum |-> 0]
  /\ cleared = FALSE
  /\ irregular = 0

\* extract_keywords on the description chosen
ExtractKeywords ==
  /\ last.op = "extract_keywords_args"
  /\ \E r \in {extract_keywords(last.text, last.max_keywords)} :
       last' = [op |-> "extract_keywords", text |-> last.text,
                max_keywords |-> last.max_keywords,
                keywords |-> r.keywords, out |-> r.out]
  /\ UNCHANGED <<open, index, chunks, metadatas, indexFile, metaFile,
                 tally, cleared, irregular>>

NextKeywords == ExtractKeywords

SpecKeywords == InitKeywords /\ [][NextKeywords]_vars

\* ---------------------------------------------------------------- outputs
\* The outputs folder is the set of the names of its files (history.json
\* aside, of which the number of entries is kept).  A file name is its base
\* "<prefix>-<slug>-<date>", its tail ("" or "-v<version>") and its extension.

\* most save_output calls on one folder
MaxSaves == 3

\* append_to_history keeps the last 100 entries
HistoryKeep == 100

OutputTypes == {"resume", "cover_letter", "summary", "output"}
JobTitles == {"", "Field Rep"}
Exts == {"md", ".MD"}
Days == {"2026-11-02", "2026-11-03"}

\* _slugify(text)
Slugify(text) == CASE text = "Field Rep" -> "field_rep" [] OTHER -> "output"

\* (ext or default).lstrip(".").lower()
SafeExt(ext, default) ==
  LET e == IF ext = "" THEN default ELSE ext
  IN  CASE e = ".MD" -> "md" [] OTHER -> e

\* output_type.replace(" ", "").title() or "Output"
TitleOf(output_type) ==
  CASE output_type = "summary" -> "Summary"
    [] output_type = "output" -> "Output"
    [] output_type = "" -> "Output"
    [] OTHER -> output_type

FileName(base, tail, ext) == [base |-> base, tail |-> tail, ext |-> ext]

\* get_output_filename_with_ext(output_type, job_title, ext, version) on the
\* day `today`; version 0 stands for None
get_output_filename_with_ext(output_type, job_title, ext, version, today) ==
  LET safe_ext == SafeExt(ext, "txt")
      slug == IF job_title # "" THEN Slugify(job_title) ELSE "output"
      prefix == IF output_type \in {"resume"} THEN "Resume"
                ELSE IF output_type \in {"cover_letter", "coverletter", "cover-letter"}
                  THEN "CoverLetter"
                ELSE TitleOf(output_type)
      base == prefix \o "-" \o slug \o "-" \o today
  IN  IF version > 1 THEN FileName(base, "-v" \o ToString(version), safe_ext)
      ELSE FileName(base, "", safe_ext)

\* int(p.stem.split("-v")[-1]) of a file the glob found
VersionOf(file) ==
  CHOOSE v \in 0..(MaxSaves + 2) : file.tail = "-v" \o ToString(v)

\* _next_version(outputs_dir, output_type, job_title, ext) on the day `today`
next_version(folder, output_type, job_title, ext, today) ==
  LET slug == IF job_title # "" THEN Slugify(job_title) ELSE "output"
      prefix == IF output_type \in {"resume"} THEN "Resume"
                ELSE IF output_type \in {"cover_letter", "coverletter", "cover-letter"}
                  THEN "CoverLetter"
                ELSE "Output"
      base == prefix \o "-" \o slug \o "-" \o today
      safe_ext == SafeExt(ext, "md")
      versions_found ==
        (IF FileName(base, "", safe_ext) \in folder THEN {1} ELSE {})
        \cup { VersionOf(f) : f \in { g \in folder : /\ g.base = base /\ g.ext = safe_ext
                                                     /\ g.tail # "" } }
  IN  IF versions_found = {} THEN 1
      ELSE (CHOOSE v \in versions_found : \A u \in versions_found : u <= v) + 1

\* save_output(content, output_type, job_title, outputs_dir, ext, auto_version)
\* on the day `today`, with append_history as by default: the file written,
\* whether it was there before, the folder and the history afterwards
save_output(folder, entries, output_type, job_title, ext, auto_version, today) ==
  LET safe_ext == SafeExt(ext, "md")
      v == IF auto_version
             THEN next_version(folder, output_type, job_title, safe_ext, today) ELSE 1
      version == IF v > 1 THEN v ELSE 0
      filename == get_output_filename_with_ext(output_type, job_title, safe_ext, version, today)
  IN  [filename |-> filename, overwrote |-> filename \in folder,
       folder |-> folder \cup {filename},
       entries |-> Min(entries + 1, HistoryKeep)]

\* an empty outputs folder; the store plays no part
InitOutputs ==
  /\ open = TRUE
  /\ index = NoIndex
  /\ chunks = <<>>
  /\ metadatas = <<>>
  /\ indexFile = AbsentIndexFile
  /\ metaFile = AbsentMetaFile
  /\ last = [op |-> "mkdir", saves |-> 0, folder |-> {}, entries |-> 0]
  /\ tally = [on |-> TRUE, sum |-> 0]
  /\ cleared = FALSE
  /\ irregular = 0

\* one more save_output on the folder
SaveOutput ==
  /\ last.saves < MaxSaves
  /\ \E output_type \in OutputTypes, job_title \in JobTitles, ext \in Exts,
        auto_version \in BOOLEAN, today \in Days :
     \E r \in {save_output(last.folder, last.entries, output_type, job_title, ext,
                           auto_version, today)} :
       last' = [op |-> "save_output", saves |-> last.saves + 1,
                folder |-> r.folder, entries |-> r.entries,
                output_type |-> output_type, job_title |-> job_title,
                ext |-> SafeExt(ext, "md"), auto_version |-> auto_version,
                today |-> today, filename |-> r.filename, overwrote |-> r.overwrote]
  /\ UNCHANGED <<open, index, chunks, metadatas, indexFile, metaFile,
                 tally, cleared, irregular>>

NextOutputs == SaveOutput

SpecOutputs == InitOutputs /\ [][NextOutputs]_vars

\* ---------------------------------------------------------------- process & index
\* most documents a scan of the sources directory finds
MaxDocs == 2

\* config.py has 800 and 100; here they are scaled to the texts tried, the
\* overlap below the size as there
CHUNK_SIZE == 3
CHUNK_OVERLAP == 1

\* a text of the chunker as a string of the store
RECURSIVE StrOf(_)
StrOf(t) == IF t = <<>> THEN "" ELSE Head(t) \o StrOf(Tail(t))

\* the documents a scan may find: a text of one chunk, one of several, one of
\* none
ScanTexts == { <<"x">>, <<"x", " ", "x", " ", "x">>, <<>> }
ScanDocs == { [text |-> t, meta |-> MetaOf(d)] : t \in ScanTexts, d \in {"resume", "book"} }

\* the record of a press of the button: op is "process_index_cleared" while
\* the handler stands between clear() and add_chunks, "process_index" when it
\* has ended; passed is what chunk_documents yielded, as handed to add_chunks
Pressed(op, outcome, docs, passed, added) ==
  [op |-> op, outcome |-> outcome, docs |-> docs, passed |-> passed, added |-> added]

\* the "Process & Index" button up to and including vector_store.clear(): ok
\* says whether the Ollama models are there, docs is what
\* load_documents_from_dir yields.  Without models or documents, or when the
\* chunking raises, the handler ends here.
ProcessIndexClear ==
  /\ open
  /\ last.op # "process_index_cleared"
  /\ \E ok \in BOOLEAN, n \in 0..MaxDocs :
     \E docs \in [1..n -> ScanDocs] :
       IF ~ok \/ docs = <<>>
         THEN /\ last' = Pressed("process_index",
                                 IF ~ok THEN "no_models" ELSE "no_documents",
                                 docs, <<>>, 0)
              /\ UNCHANGED <<open, index, chunks, metadatas, indexFile, metaFile,
                             tally, cleared, irregular>>
         ELSE
         \E c \in {chunk_documents(docs, CHUNK_SIZE, CHUNK_OVERLAP)} :
           IF c.outcome # "ok"
             THEN /\ last' = Pressed("process_index", c.outcome, docs, <<>>, 0)
                  /\ UNCHANGED <<open, index, chunks, metadatas, indexFile, metaFile,
                                 tally, cleared, irregular>>
             ELSE
             LET r == clear(TRUE)
             IN  /\ index' = r.index
                 /\ chunks' = r.chunks
                 /\ metadatas' = r.metadatas
                 /\ indexFile' = r.indexFile
                 /\ metaFile' = r.metaFile
                 /\ last' = Pressed("process_index_cleared", "ok", docs,
                                    [i \in DOMAIN c.out |->
                                       [text |-> StrOf(c.out[i].chunk),
                                        meta |-> c.out[i].meta]],
                                    0)
                 /\ tally' = [on |-> TRUE, sum |-> 0]
                 /\ cleared' = TRUE
                 /\ UNCHANGED <<open, irregular>>

\* the rest of the handler: add_chunks on the lists of chunk texts and
\* metadata records; every exception is caught and shown
ProcessIndexAdd ==
  /\ last.op = "process_index_cleared"
  /\ \E bs \in BatchSizes, w \in Widths :
     \E failAt \in 0..NumBatches(Len(last.passed), bs) :
     \E sv \in (IF failAt = 0 /\ last.passed # <<>> /\ irregular < MaxIrregular
                  THEN SaveOutcomes ELSE {"ok"}) :
     \E r \in {add_chunks(ChunksOf(last.passed), MetasOf(last.passed, 0),
                          bs, w, failAt, sv)} :
       /\ index' = r.index
       /\ chunks' = r.chunks
       /\ metadatas' = r.metadatas
       /\ indexFile' = r.indexFile
       /\ metaFile' = r.metaFile
       /\ last' = Pressed("process_index", r.outcome, last.docs, last.passed, r.ret)
       /\ tally' = IF r.outcome = "save_error" THEN [on |-> FALSE, sum |-> 0]
                                               ELSE [on |-> TRUE, sum |-> r.ret]
       /\ cleared' = (r.outcome # "ok" \/ last.passed = <<>>)
       /\ irregular' = IF sv # "ok" THEN irregular + 1 ELSE irregular
       /\ UNCHANGED open

NextIndex == ProcessIndexClear \/ ProcessIndexAdd

SpecIndex == Init /\ [][NextIndex]_vars

\* ---------------------------------------------------------------- properties
Mutable ==<<index, chunks, metadatas, indexFile, metaFile>>

\* C1: as long as every add_chunks call had lists of equal length and every
\* file operation completed, the text list, the metadata list and the index
\* hold the same number of entries (the number count() reports).
C1_ParallelCounts ==
  irregular = 0 => (Len(chunks) = Count /\ Len(metadatas) = Count)

\* an add_chunks call fails in the embedding service on a store of two entries
C1_Witness ==
  /\ irregular = 0
  /\ last.op = "add_chunks" /\ last.outcome = "embed_error"
  /\ Count = 2 /\ Len(chunks) = 2

\* C2: an add_chunks call whose lists differ in length is rejected and changes
\* neither the three collections nor the files.
C2_MismatchRejected ==
  [][(last'.op = "add_chunks" /\ last'.mismatch)
       => (last'.outcome # "ok" /\ UNCHANGED Mutable)]_vars

\* C3: the two files always describe the same number of entries: a store
\* opened on them never holds an index and a text list of different sizes.
C3_PersistedAsUnit ==
  LET r == Load(indexFile, metaFile)
  IN  r.ok => Len(r.index.vecs) = Len(r.chunks)

\* C4: an add_chunks call that fails in the embedding service, on whichever
\* batch, changes neither the three collections nor the files.
C4_EmbedFailureAddsNothing ==
  [][(last'.op = "add_chunks" /\ last'.outcome = "embed_error")
       => UNCHANGED Mutable]_vars

\* the service fails on the second of three batches, on a store that holds entries
C4_Witness ==
  /\ last.op = "add_chunks" /\ last.outcome = "embed_error"
  /\ last.batches = 3 /\ last.requests = 2
  /\ Count > 0

\* C5: every vector of the index has the width of the index; an add_chunks
\* that adds to an existing index leaves that width as it is, and one turned
\* down for its width changes neither the three collections nor the files.
C5_WidthFixed ==
  /\ [](index.some => \A i \in DOMAIN index.vecs : Len(index.vecs[i]) = index.d)
  /\ [][(last'.op = "add_chunks" /\ index.some /\ index'.some) => index'.d = index.d]_vars
  /\ [][(last'.op = "add_chunks" /\ last'.outcome = "dim_error")
          => UNCHANGED Mutable]_vars

\* an add_chunks is turned down for its width by an index that holds vectors
C5_Witness ==
  /\ last.op = "add_chunks" /\ last.outcome = "dim_error"
  /\ Count > 0 /\ Len(chunks) = Count

\* C6: a successful add_chunks of n chunks returns n and raises count() by n;
\* count() is the sum of the values returned since the store was empty.
C6_CountIsSumReturned ==
  /\ [](tally.on => Count = tally.sum)
  /\ [][(last'.op = "add_chunks" /\ last'.outcome = "ok")
          => (last'.ret = last'.nchunks /\ Count' = Count + last'.nchunks)]_vars

\* a second successful add_chunks on a store that was empty
C6_Witness ==
  /\ tally.on /\ tally.sum = 2
  /\ last.op = "add_chunks" /\ last.outcome = "ok" /\ last.ret = 1

\* C7: from a completed clear() until the next add_chunks that returns,
\* count() is 0 and every search returns the empty list.
C7_EmptyUntilNextAdd ==
  cleared => ( /\ Count = 0
               /\ (last.op = "search" => last.outcome = "ok" /\ last.out = <<>>) )

\* C8: a search with a non-empty filter returns at most top_k entries, each
\* with a doc_type of the filter.
C8_FilterAndTrim ==
  (last.op = "search" /\ last.outcome = "ok" /\ last.filter # {}) =>
    /\ Len(last.out) <= last.topk
    /\ \A i \in DOMAIN last.out :
         LET dt == DictGet(last.out[i].metadata, "doc_type")
         IN  dt.kind = "str" /\ dt.val \in last.filter

\* a filtered search with top_k = 1 returns one entry from a store that also
\* holds an entry of the filter's type it leaves out and an entry it must skip
C8_Witness ==
  /\ last.op = "search" /\ last.outcome = "ok"
  /\ last.filter = {"resume"} /\ last.topk = 1 /\ Len(last.out) = 1
  /\ \E i \in DOMAIN metadatas : metadatas[i] = {}

\* C9: after every add_chunks or clear that returned, a store opened on the
\* same files holds the index, the texts and the metadata of the live store.
C9_ReopenedEqualsLive ==
  (last.op \in {"add_chunks", "clear"} /\ last.outcome = "ok") =>
    LET r == Load(indexFile, metaFile)
    IN  r.ok /\ r.index = index /\ r.chunks = chunks /\ r.metadatas = metadatas

\* C10: a store opened while exactly one of the two files exists is empty;
\* a store that loaded anything found both files.
C10_BothFilesOrEmpty ==
  last.op = "open" =>
    /\ ((indexFile.state = "absent") # (metaFile.state = "absent"))
         => ( /\ last.outcome = "ok" /\ open
              /\ Count = 0 /\ chunks = <<>> /\ metadatas = <<>> )
    /\ (index.some \/ chunks # <<>> \/ metadatas # <<>>)
         => (indexFile.state = "ok" /\ metaFile.state = "ok")

\* a store is opened on a record file that holds chunks, the index file missing
C10_Witness ==
  /\ last.op = "open"
  /\ indexFile.state = "absent"
  /\ metaFile.state = "ok" /\ metaFile.chunks # <<>>

\* C11: a store opened on files of which one is corrupt (present, but it does
\* not parse) opens without an error and is empty.
C11_CorruptOpensEmpty ==
  (last.op = "open" /\ (indexFile.state = "corrupt" \/ metaFile.state = "corrupt"))
    => (last.outcome = "ok" /\ open /\ Count = 0 /\ chunks = <<>>)

\* C12: an add_chunks call with an empty chunk list returns 0, sends no request
\* to the embedding service and changes neither the three collections nor the
\* files.
C12_EmptyAddIsNoop ==
  [][(last'.op = "add_chunks" /\ last'.nchunks = 0)
       => ( /\ last'.outcome = "ok" /\ last'.ret = 0 /\ last'.requests = 0
            /\ UNCHANGED Mutable )]_vars

\* an empty add_chunks call on a store that holds entries and has no files
\* that load (its last save did not complete)
C12_Witness ==
  /\ last.op = "add_chunks" /\ last.nchunks = 0
  /\ Count > 0
  /\ metaFile.state # "ok"

KeysOf(m) == {p[1] : p \in m}

\* C13: after an add_chunks, each metadata record it stored has the keys of
\* the record passed in, and each of its values is a string, a number or a
\* boolean: a scalar as passed, a list or dict as its printed form, a value of
\* any other kind as a string.
C13_StoredMetadataScalar ==
  (last.op = "add_chunks" /\ last.outcome = "ok") =>
    \A i \in DOMAIN last.passed :
      LET given == last.passed[i]
          stored == metadatas[Len(metadatas) - Len(last.passed) + i]
      IN  /\ KeysOf(stored) = KeysOf(given)
          /\ Cardinality(stored) = Cardinality(given)
          /\ \A k \in KeysOf(given) :
               LET v == DictGet(given, k)
                   c == DictGet(stored, k)
               IN  /\ c.kind \in {"str", "int", "float", "bool"}
                   /\ v.kind \in {"str", "int", "float", "bool"} => c = v
                   /\ v.kind \in {"list", "dict"} => c = PyStr(v.val)
                   /\ v.kind \notin {"str", "int", "float", "bool", "list", "dict"}
                        => c.kind = "str"

\* one call stored a record with a dict and a record with an empty tuple
C13_Witness ==
  /\ last.op = "add_chunks" /\ last.outcome = "ok"
  /\ Len(last.passed) = 2
  /\ DictGet(last.passed[1], "page").kind = "dict"
  /\ DictGet(last.passed[2], "doc_type") = [kind |-> "tuple", val |-> "()"]
  /\ DictGet(metadatas[2], "doc_type") = PyStr("")

\* C14: the list a search returns is ranked: distances do not decrease along
\* it (the cosine similarity to the query does not increase), with a filter or
\* without, and no entry of the store is in it twice.
C14_Ranked ==
  (last.op = "search" /\ last.outcome = "ok") =>
    LET out == last.out
        picked == last.picked
        qv == Normalize(EmbeddingOf(index.d, last.query))
    IN  /\ Len(picked) = Len(out)
        /\ \A i \in DOMAIN out :
             /\ picked[i] \in DOMAIN chunks
             /\ out[i].content = chunks[picked[i]]
             /\ out[i].metadata = metadatas[picked[i]]
             /\ out[i].distance = 25 - Score(index, qv, picked[i])
        /\ \A i, j \in DOMAIN out : i < j =>
             /\ out[i].distance <= out[j].distance
             /\ Score(index, qv, picked[i]) >= Score(index, qv, picked[j])
             /\ picked[i] # picked[j]

\* a filtered search returns two entries at different distances and leaves out
\* an entry that is nearer to the query than the second
C14_Witness ==
  /\ last.op = "search" /\ last.outcome = "ok" /\ last.filter = {"resume"}
  /\ Len(last.out) = 2
  /\ last.out[1].distance < last.out[2].distance
  /\ \E p \in DOMAIN chunks :
       /\ p \notin {last.picked[1], last.picked[2]}
       /\ 25 - Score(index, Normalize(EmbeddingOf(index.d, last.query)), p)
            < last.out[2].distance

\* the chunks a call to the chunker gave, chunk_text or chunk_documents
ChunksMade ==
  IF last.op = "chunk_text" THEN last.out
  ELSE [i \in DOMAIN last.out |-> last.out[i].chunk]

ValidSizes == 0 <= last.overlap /\ last.overlap < last.chunk_size

\* C17: every chunk chunk_text and chunk_documents emit is non-empty and has
\* no whitespace at either end, and a text that is empty or all whitespace
\* gives no chunk.
C17_ChunksTrimmed ==
  (last.op \in {"chunk_text", "chunk_documents"}) =>
    /\ \A i \in DOMAIN ChunksMade :
         LET c == ChunksMade[i]
         IN  c # <<>> /\ ~IsSpace(c[1]) /\ ~IsSpace(c[Len(c)])
    /\ (last.op = "chunk_text" /\ \A k \in DOMAIN last.text : IsSpace(last.text[k]))
         => (last.outcome = "ok" /\ last.out = <<>>)

\* the longest common part of the end of prev and the start of next, of at
\* most `most` characters
SharedLen(prev, next, most) ==
  LET fits == { k \in 0..Min(most, Min(Len(prev), Len(next))) :
                  SubSeq(prev, Len(prev) - k + 1, Len(prev)) = SubSeq(next, 1, k) }
  IN  CHOOSE k \in fits : \A j \in fits : j <= k

\* the chunks joined in order, each after the first without the prefix it
\* shares with the end of the chunk before it
RECURSIVE Rejoin(_, _, _, _)
Rejoin(cks, most, i, acc) ==
  IF i > Len(cks) THEN acc
  ELSE LET k == IF i = 1 THEN 0 ELSE SharedLen(cks[i - 1], cks[i], most)
       IN  Rejoin(cks, most, i + 1, acc \o SubSeq(cks[i], k + 1, Len(cks[i])))

NonSpace(s) == SelectSeq(s, LAMBDA c : ~IsSpace(c))

\* C15: for 0 <= overlap < chunk_size, the chunks of chunk_text joined in
\* order, each after the first without the prefix it shares with the end of the
\* previous chunk (taken as long as it goes, or as far as `overlap`
\* characters), give the text back, whitespace aside.
C15_ChunkCoverage ==
  (last.op = "chunk_text" /\ last.outcome = "ok" /\ ValidSizes) =>
    \/ NonSpace(Rejoin(last.out, Len(last.text), 1, <<>>)) = NonSpace(last.text)
    \/ NonSpace(Rejoin(last.out, last.overlap, 1, <<>>)) = NonSpace(last.text)

\* the longest piece of the text between two paragraph breaks
RECURSIVE LongestOf(_)
LongestOf(parts) ==
  IF parts = <<>> THEN 0 ELSE Max(Len(Head(parts)), LongestOf(Tail(parts)))

LongestPiece(text) == LongestOf(Split(text, Separators[1]))

C17_Witness ==
  /\ last.op = "chunk_text" /\ last.outcome = "ok" /\ ValidSizes
  /\ Len(Split(last.text, Separators[1])) = 1
  /\ Len(last.text) > 2 * last.chunk_size
  /\ Len(last.out) = 2
  /\ Len(last.out[1]) < last.chunk_size

\* number of chunks chunk_text makes of document d of the call
ChunksIn(d) == Len(chunk_text(last.documents[d].text, last.chunk_size, last.overlap).out)

\* number of chunks of the documents before document d
RECURSIVE ChunksBefore(_)
ChunksBefore(d) == IF d = 1 THEN 0 ELSE ChunksBefore(d - 1) + ChunksIn(d - 1)

\* C18: chunk_documents yields the chunks of the first document in order,
\* then those of the second, ...; each with the keys and values of its
\* document's metadata, except chunk_index, which is 0, 1, 2, ... within each
\* document; the metadata of the documents stay as they were.
C18_ChunkIndexPerDocument ==
  (last.op = "chunk_documents" /\ last.outcome = "ok") =>
    /\ last.after = last.documents
    /\ Len(last.out) = ChunksBefore(Len(last.documents) + 1)
    /\ \A d \in DOMAIN last.documents :
       \A i \in 1..ChunksIn(d) :
         LET doc == last.documents[d]
             y == last.out[ChunksBefore(d) + i]
         IN  /\ y.chunk = chunk_text(doc.text, last.chunk_size, last.overlap).out[i]
             /\ DictGet(y.meta, "chunk_index") = PyInt(i - 1)
             /\ KeysOf(y.meta) = KeysOf(doc.meta) \cup {"chunk_index"}
             /\ Cardinality(y.meta) = Cardinality(KeysOf(y.meta))
             /\ \A k \in KeysOf(doc.meta) \ {"chunk_index"} :
                  DictGet(y.meta, k) = DictGet(doc.meta, k)

\* two documents of several chunks each, the second with a chunk_index of its
\* own in its metadata
C18_Witness ==
  /\ last.op = "chunk_documents" /\ last.outcome = "ok"
  /\ Len(last.documents) = 2
  /\ ChunksIn(1) = 3 /\ ChunksIn(2) = 2
  /\ DictGet(last.documents[2].meta, "chunk_index") = PyInt(7)
  /\ DictGet(last.out[4].meta, "chunk_index") = PyInt(0)

\* C19: chunk_text returns a list of chunks, without raising, for every text,
\* chunk_size and overlap.
C19_ChunkerTotal ==
  (last.op = "chunk_text") => last.outcome = "ok"

\* C20: sanitizing a sanitized text gives it back as it is.
C20_SanitizeIdempotent ==
  (last.op = "sanitize_resume_text" /\ last.pass = 2) => last.out = last.text

\* what load_document makes of one entry of the listing, by itself
PairOf(f) == load_document(f, infer_doc_type(f))

\* the entries of a listing that are supported files and load with a text
\* that is not empty, in the order of the listing
Yielding(fs) ==
  SelectSeq([i \in DOMAIN fs |-> i],
            LAMBDA i : /\ fs[i].isfile /\ Lower(fs[i].suffix) \in Supported
                       /\ fs[i].loads /\ PairOf(fs[i]).text # <<>>)

\* the scan yields the pair of each such entry, and nothing else
ScanIsPerFile ==
  /\ last.from = Yielding(last.files)
  /\ Len(last.out) = Len(last.from)
  /\ \A k \in DOMAIN last.out :
       LET made == PairOf(last.files[last.from[k]])
       IN  last.out[k] = [text |-> made.text, metadata |-> made.metadata]

\* the text of a pair made of a resume has no "Changes Made:" line
ResumesWithoutCut ==
  \A k \in DOMAIN last.out :
    DictGet(last.out[k].metadata, "doc_type") = PyStr("resume")
      => \A j \in DOMAIN last.out[k].text : last.out[k].text[j].kind # "cut"

\* C21 as stated: the scan of an existing directory yields one pair for every
\* supported file that loads with non-empty text, whatever the other entries
\* are; a resume comes without its "Changes Made:" section, and the text of an
\* experience text file is the text of the file, unmodified.
C21_ScanUnmodified ==
  (last.op = "load_documents_from_dir" /\ last.exists) =>
    /\ ScanIsPerFile
    /\ ResumesWithoutCut
    /\ \A k \in DOMAIN last.out :
         ( /\ DictGet(last.out[k].metadata, "doc_type") = PyStr("experience")
           /\ last.files[last.from[k]].suffix = ".txt" )
           => last.out[k].text = last.files[last.from[k]].text

\* C21, amended: the scan of an existing directory yields one pair for every
\* supported file that loads with non-empty text, whatever the other entries
\* are (a file whose load raises gets a warning and no pair, an unsupported
\* file and a folder get nothing); a resume comes without its "Changes Made:"
\* section, and the text of a file of another type is the text of the file
\* without the whitespace around it.
C21_ScanPartialFailure ==
  (last.op = "load_documents_from_dir" /\ last.exists) =>
    /\ ScanIsPerFile
    /\ ResumesWithoutCut
    /\ \A i \in DOMAIN last.files :
         (\E k \in DOMAIN last.warnings : last.warnings[k] = i)
           <=> ( /\ last.files[i].isfile /\ Lower(last.files[i].suffix) \in Supported
                 /\ ~last.files[i].loads )
    /\ \A k \in DOMAIN last.out :
         DictGet(last.out[k].metadata, "doc_type") # PyStr("resume")
           => last.out[k].text = StripText(last.files[last.from[k]].text)

\* a resume with a "Changes Made:" section, a file whose load raises, and an
\* experience file with blank lines around its text: two pairs, the resume
\* cut, the experience text trimmed
C21_Witness ==
  /\ last.op = "load_documents_from_dir" /\ last.exists
  /\ Len(last.files) = 3
  /\ last.from = <<1, 3>> /\ last.warnings = <<2>>
  /\ Len(last.files[1].text) = 3 /\ last.files[1].text[2].kind = "cut"
  /\ last.out[1].text = << Line("text", FALSE) >>
  /\ DictGet(last.out[2].metadata, "doc_type") = PyStr("experience")
  /\ Len(last.files[3].text) = 3 /\ Len(last.out[2].text) = 1

\* the doc_type the folders of a file stand for: that of the first folder
\* below the directory, however it is spelled
TypeByFolder(f) ==
  IF f.dirs = <<>> THEN "experience"
  ELSE CASE f.dirs[1] \in {"resumes", "Resumes"} -> "resume"
         [] f.dirs[1] = "experiences" -> "experience"
         [] f.dirs[1] = "books" -> "book"
         [] OTHER -> "experience"

\* C22: the doc_type of every pair of a scan is that of the first folder below
\* the directory (experience for any other folder and for a file in the
\* directory itself); the pairs of type resume, and only they, carry
\* sanitized = True, and their text is the sanitized text of the file.
C22_DocTypeAndSanitized ==
  (last.op = "load_documents_from_dir") =>
    \A k \in DOMAIN last.out :
      LET f == last.files[last.from[k]]
          meta == last.out[k].metadata
          type == TypeByFolder(f)
      IN  /\ DictGet(meta, "doc_type") = PyStr(type)
          /\ DictGet(meta, "source") = PyStr(NameOf(f))
          /\ type = "resume" =>
               /\ DictGet(meta, "sanitized") = PyTrue
               /\ last.out[k].text = sanitize_resume_text(StripText(f.text))
          /\ type # "resume" =>
               /\ "sanitized" \notin KeysOf(meta)
               /\ KeysOf(meta) = {"source", "doc_type"}

\* a scan yields a sanitized resume from the folder Resumes, and an
\* experience from a folder named resumes that lies below another folder
C22_Witness ==
  /\ last.op = "load_documents_from_dir"
  /\ \E k \in DOMAIN last.out :
       /\ last.files[last.from[k]].dirs = <<"Resumes">>
       /\ DictGet(last.out[k].metadata, "sanitized") = PyTrue
       /\ Len(last.out[k].text) < Len(last.files[last.from[k]].text)
  /\ \E k \in DOMAIN last.out :
       /\ last.files[last.from[k]].dirs = <<"notes", "resumes">>
       /\ DictGet(last.out[k].metadata, "doc_type") = PyStr("experience")

\* the classes of keywords the four steps stand for, read off the text
IsVocabularyTerm(text, k) ==
  /\ Len(k) = 1 /\ \E t \in DOMAIN CA_LEG_KEYWORDS : CA_LEG_KEYWORDS[t] = k[1]
  /\ \E i \in DOMAIN text : \E j \in DOMAIN text[i].words :
       HasTerm(k[1], LowerWord(text[i].words[j]))

IsBulletWord(text, k) ==
  /\ Len(k) = 1
  /\ \E i \in DOMAIN text :
       /\ text[i].bullet
       /\ \E j \in DOMAIN text[i].words : LowerWord(text[i].words[j]) = k[1]

IsPhrase(text, k) ==
  /\ Len(k) >= 3
  /\ \A p \in DOMAIN k : p % 2 = 1 =>
       \E i \in DOMAIN text : \E j \in DOMAIN text[i].words :
         Capitalized(text[i].words[j]) /\ LowerWord(text[i].words[j]) = k[p]

IsGenericWord(text, k) ==
  /\ Len(k) = 1 /\ Len(k[1]) >= MinGeneric /\ k[1] \notin StopWords
  /\ \E i \in DOMAIN text : \E j \in DOMAIN text[i].words :
       LowerWord(text[i].words[j]) = k[1]

\* the list is in priority order: it falls into four stretches, of vocabulary
\* terms, of words of bullet lines, of phrases, of generic words
InPriorityOrder(text, ks) ==
  \E a, b, c \in 0..Len(ks) :
    /\ a <= b /\ b <= c
    /\ \A p \in DOMAIN ks :
         /\ p <= a => IsVocabularyTerm(text, ks[p])
         /\ (a < p /\ p <= b) => IsBulletWord(text, ks[p])
         /\ (b < p /\ p <= c) => IsPhrase(text, ks[p])
         /\ c < p => IsGenericWord(text, ks[p])

\* C23: extract_keywords returns a list without duplicates of at most
\* max_keywords entries, in priority order (vocabulary terms found in the
\* text, words of bullet lines, capitalized phrases, generic words of 4 or
\* more letters that are no stopwords); a limit cuts the list at its end.
C23_KeywordsByPriority ==
  (last.op = "extract_keywords") =>
    /\ Len(last.out) <= last.max_keywords
    /\ \A i, j \in DOMAIN last.out : i < j => last.out[i] # last.out[j]
    /\ last.out = SubSeq(last.keywords, 1, Len(last.out))
    /\ Len(last.out) < Len(last.keywords) => Len(last.out) = last.max_keywords
    /\ InPriorityOrder(last.text, last.out)

\* C24: a save_output with auto_version writes a file that was not in the
\* folder before, whatever the output type: k saves of one type, title,
\* extension and day leave k files.
C24_AutoVersionKeepsFiles ==
  [][(last'.op = "save_output" /\ last'.auto_version)
       => (~last'.overwrote /\ Cardinality(last'.folder) = Cardinality(last.folder) + 1)]_vars

\* the entry at position p passes the filter F
Allowed(p, F) ==
  LET dt == DictGet(metadatas[p], "doc_type")
  IN  F = {} \/ (dt.kind = "str" /\ dt.val \in F)

\* C25: a search looks at the min(4 * top_k, size) most similar entries when
\* it has a filter and at the min(top_k, size) most similar ones when it has
\* none, and returns, in their order, the first top_k of them that the filter
\* allows: an allowed entry with 4 * top_k or more entries nearer to the query
\* is never returned.
C25_OverFetch ==
  (last.op = "search" /\ last.outcome = "ok") =>
    LET n == Len(index.vecs)
        qv == Normalize(EmbeddingOf(index.d, last.query))
        looked == IF last.filter # {} THEN Min(OverFetch * last.topk, n)
                  ELSE Min(last.topk, n)
        order == last.fetched
        allowed == SelectSeq(order, LAMBDA p : Allowed(p, last.filter))
    IN  /\ Len(order) = looked
        /\ \A i, j \in DOMAIN order : i < j =>
             order[i] # order[j] /\ Score(index, qv, order[i]) >= Score(index, qv, order[j])
        /\ \A p \in DOMAIN chunks : (\A i \in DOMAIN order : order[i] # p) =>
             \A i \in DOMAIN order : Score(index, qv, order[i]) >= Score(index, qv, p)
        /\ last.picked = SubSeq(allowed, 1, Min(last.topk, Len(allowed)))
        /\ Len(last.out) = Len(last.picked)
        /\ \A i \in DOMAIN last.out :
             /\ last.out[i].content = chunks[last.picked[i]]
             /\ last.out[i].metadata = metadatas[last.picked[i]]
        /\ \A i \in DOMAIN last.picked :
             Cardinality({p \in DOMAIN chunks :
                            Score(index, qv, p) > Score(index, qv, last.picked[i])}) < looked
        /\ last.filter = {} => Len(last.out) = Min(last.topk, n)

\* a search for one resume looks at four entries, all books, and returns
\* nothing, though the fifth entry of the store is a resume
C25_Witness ==
  /\ last.op = "search" /\ last.outcome = "ok"
  /\ last.filter = {"resume"} /\ last.topk = 1
  /\ Len(last.fetched) = 4 /\ last.out = <<>>
  /\ \E p \in DOMAIN chunks : Allowed(p, {"resume"})

\* the lengths of the words of a text (its runs of characters that are no
\* whitespace), in order; run is the length of the word begun
RECURSIVE WordLens(_, _, _)
WordLens(t, i, run) ==
  IF i > Len(t) THEN (IF run > 0 THEN <<run>> ELSE <<>>)
  ELSE IF IsSpace(t[i])
    THEN (IF run > 0 THEN <<run>> ELSE <<>>) \o WordLens(t, i + 1, 0)
    ELSE WordLens(t, i + 1, run + 1)

RECURSIVE WordLensOfAll(_)
WordLensOfAll(cks) ==
  IF cks = <<>> THEN <<>> ELSE WordLens(Head(cks), 1, 0) \o WordLensOfAll(Tail(cks))

\* C26: a text longer than chunk_size that has no paragraph break, but line
\* breaks or spaces, is split at those and not inside its words: without
\* overlap, and with no word longer than chunk_size, the words of the chunks
\* are the words of the text.
C26_SplitAtSeparators ==
  ( /\ last.op = "chunk_text" /\ last.outcome = "ok"
    /\ last.overlap = 0
    /\ Len(last.text) > last.chunk_size
    /\ Len(Split(last.text, Separators[1])) = 1
    /\ \A k \in DOMAIN WordLens(last.text, 1, 0) :
         WordLens(last.text, 1, 0)[k] <= last.chunk_size )
    => WordLensOfAll(last.out) = WordLens(last.text, 1, 0)

\* C27: the requests of an add_chunks call of n chunks with batch size b are
\* the batches of the chunk list in its order, each of at most b chunks and
\* each requested once: ceil(n / b) requests when none fails; the first
\* request that fails is the last, and the call ends with its failure.
C27_BatchesInOrderOnce ==
  (last.op = "add_chunks") =>
    LET n == Len(last.passed)
        b == last.batch_size
        sent == last.sent
    IN  /\ \A j \in DOMAIN sent :
             /\ sent[j] = SubSeq(last.passed, (j - 1) * b + 1, Min(j * b, n))
             /\ Len(sent[j]) >= 1 /\ Len(sent[j]) <= b
        /\ last.failAt = 0
             => ( /\ last.outcome = "ok" /\ last.ret = n
                  /\ Len(sent) * b >= n /\ (Len(sent) - 1) * b < n )
        /\ last.failAt > 0
             => (last.outcome = "embed_error" /\ Len(sent) = last.failAt /\ last.ret = 0)

\* the service fails on the second of three or more batches: two requests
C27_Witness ==
  /\ last.op = "add_chunks" /\ last.outcome = "embed_error"
  /\ last.failAt = 2 /\ Len(last.sent) = 2
  /\ NumBatches(Len(last.passed), last.batch_size) >= 3
  /\ Count > 0

\* the lines of a text that survive the truncation at the first "Changes
\* Made:" line and the filtering of the meta lines
Surviving(text) ==
  SelectSeq([i \in DOMAIN text |->
               [text[i] EXCEPT !.kind = IF \E j \in 1..i : text[j].kind = "cut"
                                          THEN "cut" ELSE @]],
            LAMBDA line : line.kind \notin {"cut", "drop"})

\* the number of leading lines the preamble skip drops, as C28 has it: by the
\* first header or bold line among the first 60 lines (positions from 0)
Skipped(lines) ==
  LET found == {i \in 0..(Len(lines) - 1) :
                  i < ScanLines /\ lines[i + 1].kind \in {"section", "bold"}}
  IN  IF found = {} THEN 0
      ELSE LET i == CHOOSE h \in found : \A g \in found : h <= g
           IN  IF lines[i + 1].kind = "bold" THEN i
               ELSE IF i >= LinesBefore THEN i - LinesBefore ELSE 0

\* C28: of the lines that survive truncation and filtering, the sanitizer
\* drops those before the first section header among the first 60, but for
\* the two right before it, or those before the first bold line among the
\* first 60, whichever of the two comes first, and none when there is neither;
\* what it returns is the rest, with its whitespace normalized.
C28_PreambleSkip ==
  (last.op = "sanitize_resume_text") =>
    LET lines == Surviving(last.text)
        rest == SubSeq(lines, Skipped(lines) + 1, Len(lines))
    IN  last.out = JoinStrip(Collapse(rest))

\* a section header is the fourth surviving line: the first line is dropped,
\* the two lines before the header stay
C28_Witness ==
  /\ last.op = "sanitize_resume_text" /\ last.pass = 1
  /\ Len(Surviving(last.text)) >= 4
  /\ \A i \in 1..3 : Surviving(last.text)[i].kind = "text"
  /\ Surviving(last.text)[4].kind = "section"
  /\ Len(last.out) = Len(Surviving(last.text)) - 1
  /\ last.out[3].kind = "section"

\* C29: the store holds, position by position and in the order they were
\* passed, the texts of the add_chunks calls since it was last empty, each
\* with the cleaned metadata record passed with it, also after it is opened
\* anew; every entry a search returns is such a pair.
C29_AlignedByPosition ==
  /\ Len(chunks) = Len(tally.passed) /\ Len(metadatas) = Len(tally.passed)
  /\ \A p \in DOMAIN tally.passed :
       /\ chunks[p] = tally.passed[p].text
       /\ metadatas[p] = CleanMetadata(tally.passed[p].meta)
  /\ (last.op = "search" /\ last.outcome = "ok") =>
       /\ Len(last.picked) = Len(last.out)
       /\ \A i \in DOMAIN last.out :
            /\ last.picked[i] \in DOMAIN tally.passed
            /\ last.out[i].content = tally.passed[last.picked[i]].text
            /\ last.out[i].metadata = CleanMetadata(tally.passed[last.picked[i]].meta)

\* a search on a store of three entries returns two entries of the same text
\* with different metadata records, one of them cleaned
C29_Witness ==
  /\ last.op = "search" /\ last.outcome = "ok"
  /\ Len(tally.passed) = 3
  /\ Len(last.out) = 2
  /\ last.out[1].content = last.out[2].content
  /\ last.out[1].metadata # last.out[2].metadata
  /\ \E i \in 1..2 : DictGet(last.out[i].metadata, "tags") = PyStr("[]")

\* what a store opened on the files would hold
OnDisk == Load(indexFile, metaFile)

\* the store holds, in memory and on disk, exactly the entries es
HoldsExactly(es) ==
  /\ chunks = ChunksOf(es) /\ metadatas = CleanMetadatas(MetasOf(es, 0))
  /\ Len(index.vecs) = Len(es)
  /\ OnDisk.ok
  /\ OnDisk.chunks = chunks /\ OnDisk.metadatas = metadatas
  /\ Len(OnDisk.index.vecs) = Len(es)

\* C30: when Process & Index has ended on a scan that found documents, the
\* store holds, in memory and on disk, exactly the chunks of that scan (the
\* handler reports them indexed) or nothing at all (it reports a failure).
C30_IndexReplaced ==
  (last.op = "process_index" /\ last.docs # <<>> /\ last.outcome # "no_models") =>
     IF last.outcome = "ok"
       THEN HoldsExactly(last.passed) /\ last.added = Len(last.passed)
       ELSE HoldsExactly(<<>>)

====
